---- MODULE Spec2Model ----
(***************************************************************************)
(* Model of newspaperV3/extractors.py: the text normalizer, the month      *)
(* Trie (DateFinder), the publication-date finder, the title finder and    *)
(* the top-node finder.                                                    *)
(*                                                                         *)
(* Strings are sequences of characters.  A character is written as a       *)
(* one-letter TLA+ string when it is ASCII and as "uXXXX" (its code point) *)
(* otherwise, e.g. "u0623" is ARABIC LETTER ALEF WITH HAMZA ABOVE.         *)
(***************************************************************************)
EXTENDS Integers, Sequences, FiniteSets, TLC

VARIABLES
    op,                \* the operation that produced the current state
    \* ---- text normalizer and DateFinder
    text,              \* the string being processed
    word,              \* the month-table word the input was built around (<<>>: none)
    prev_text,         \* the value of text before the last normalize_arabic call
    calls,             \* number of normalize_arabic calls applied to text
    trie,              \* DateFinder.root: the Trie (children and terminal flags)
    found,             \* result of the last contains_month call (FALSE before any)
    \* ---- documents
    original_doc,      \* the document handed to the extractor: sequence of nodes
    top_node,          \* the top node: its path in the cleaned document (<<>>: None)
    \* ---- title finder
    split_args,        \* arguments of a direct split_title call
    title_h_candidate, \* get_title: the heuristic option ("" when none qualifies)
    best_option,       \* get_title: the option chosen before splitting (<<>>: None)
    final_title,       \* the string returned by get_title / split_title
    \* ---- top-node finder
    doc,               \* the (cleaned) document given to calculate_best_node
    gravityScore,      \* element -> <<>> (no attribute) or <<score in half points>>
    gravityNodes,      \* element -> <<>> (no attribute) or <<count>>
    parent_nodes,      \* calculate_best_node: tracked parents, in first-seen order
    best_node,         \* what calculate_best_node returned (None: none)
    raised,            \* an exception left the last extractor call
    passes,            \* number of calculate_best_node calls made on doc
    \* ---- publication date finder
    url,               \* the article URL given to get_publishing_date
    current_time,      \* datetime.now() as read by the call
    publish_date,      \* what get_publishing_date returned (NoneDate: None)
    tier,              \* the tier that returned publish_date ("none": no tier)
    consulted,         \* the tiers get_publishing_date ran, in order
    pav_args,          \* arguments of a direct parse_and_validate call
    parsed,            \* what parse_and_validate returned (NoneDate: None)
    \* ---- workers sharing the DateFinder
    workers,           \* worker -> its contains_month call: text, position, Trie node, result
    \* ---- DOM geometry
    geo_nodes,         \* the two nodes given to the distance helpers (<<>>: no call)
    dom_distance,      \* what calculate_dom_distance returned
    proximity,         \* what calculate_proximity_score returned
    mapped_node,       \* what find_corresponding_node returned (None: none)
    \* ---- heuristic tier of the publication date finder
    sorted_candidates, \* the candidates after the sort, in the order they are tried
    cand_index,        \* number of candidates the loop has gone through
    \* ---- sibling adoption and post-cleanup
    top_children,      \* the children of the top node after the call, in order
    returned_node,     \* the node add_siblings / post_cleanup returned (0: no call)
    removed_nodes,     \* the elements post_cleanup gave to parser.remove, in order
    density            \* <<e, is_highlink_density(e)>> of the last call (<<>>: none)

textVars  == <<text, word, prev_text, calls, found>>
docVars   == <<original_doc, top_node>>
titleVars == <<split_args, title_h_candidate, best_option, final_title>>

nodeVars  == <<doc, gravityScore, gravityNodes, parent_nodes, best_node, passes>>

dateVars  == <<url, current_time, publish_date, tier, consulted, pav_args, parsed>>

geoVars   == <<geo_nodes, dom_distance, proximity, mapped_node>>

heurVars  == <<sorted_candidates, cand_index>>

cleanVars == <<top_children, returned_node, removed_nodes, density>>

vars == <<op, trie, raised, textVars, docVars, titleVars, nodeVars, dateVars, workers, geoVars, heurVars, cleanVars>>

\* values of the variables an operation does not use
IdleText  == text = <<>> /\ word = <<>> /\ prev_text = <<>> /\ calls = 0 /\ found = FALSE
IdleDoc   == original_doc = <<>> /\ top_node = <<>>
IdleTitle ==
    /\ split_args = <<>>
    /\ title_h_candidate = <<>>
    /\ best_option = <<>>
    /\ final_title = <<>>
IdleNode  ==
    /\ doc = <<>>
    /\ gravityScore = <<>>
    /\ gravityNodes = <<>>
    /\ parent_nodes = <<>>
    /\ best_node = 0
    /\ passes = 0
IdleDate  ==
    /\ url = <<>>
    /\ current_time = <<>>
    /\ publish_date = <<>>
    /\ tier = "none"
    /\ consulted = <<>>
    /\ pav_args = <<>>
    /\ parsed = <<>>

IdleWorkers == workers = <<>>

IdleGeo == geo_nodes = <<>> /\ dom_distance = 0 /\ proximity = 0 /\ mapped_node = 0

IdleHeur == sorted_candidates = <<>> /\ cand_index = 0

IdleClean ==
    top_children = <<>> /\ returned_node = 0 /\ removed_nodes = <<>> /\ density = <<>>

(***************************************************************************)
(* Generic helpers on strings (sequences of characters)                    *)
(***************************************************************************)
Range(s) == {s[i] : i \in 1..Len(s)}

\* the minimum and the maximum of a non-empty set of integers
Min(S) == CHOOSE m \in S : \A x \in S : m <= x

Max(S) == CHOOSE m \in S : \A x \in S : x <= m

\* the concatenation of ss[lo..hi]; the range is halved, which keeps the
\* evaluation shallow for long lists
RECURSIVE ConcatIn(_, _, _)
ConcatIn(ss, lo, hi) ==
    IF lo > hi THEN <<>>
    ELSE IF lo = hi THEN ss[lo]
    ELSE ConcatIn(ss, lo, (lo + hi) \div 2) \o ConcatIn(ss, ((lo + hi) \div 2) + 1, hi)

Concat(ss) == ConcatIn(ss, 1, Len(ss))

\* re.sub of a one-character class by a replacement string, over the whole text
SubChars(s, class, repl) ==
    Concat([i \in 1..Len(s) |-> IF s[i] \in class THEN repl ELSE <<s[i]>>])

(***************************************************************************)
(* str.lower() / str.upper() on the characters that occur in the model     *)
(***************************************************************************)
AsciiUpper == <<"A","B","C","D","E","F","G","H","I","J","K","L","M",
                "N","O","P","Q","R","S","T","U","V","W","X","Y","Z",
                "u00c4","u00c9","u00db">>
AsciiLower == <<"a","b","c","d","e","f","g","h","i","j","k","l","m",
                "n","o","p","q","r","s","t","u","v","w","x","y","z",
                "u00e4","u00e9","u00fb">>

LowerChar(c) ==
    IF \E i \in 1..Len(AsciiUpper) : AsciiUpper[i] = c
    THEN AsciiLower[CHOOSE i \in 1..Len(AsciiUpper) : AsciiUpper[i] = c]
    ELSE c

UpperChar(c) ==
    IF \E i \in 1..Len(AsciiLower) : AsciiLower[i] = c
    THEN AsciiUpper[CHOOSE i \in 1..Len(AsciiLower) : AsciiLower[i] = c]
    ELSE c

lower(s) == [i \in 1..Len(s) |-> LowerChar(s[i])] \o <<>>

upper(s) == [i \in 1..Len(s) |-> UpperChar(s[i])] \o <<>>

(***************************************************************************)
(* normalize_arabic                                                        *)
(***************************************************************************)
AlefForms  == {"u0625", "u0623", "u0622", "u0627"}   \* alef with hamza below/above, madda, bare alef
Diacritics == {"u064b", "u064c", "u064d", "u064e", "u064f", "u0650", "u0651", "u0652"}

\* re.sub with count=1: only the first character of the class is replaced
SubFirstChar(s, class, repl) ==
    LET hits == {i \in 1..Len(s) : s[i] \in class}
    IN  IF hits = {} THEN s
        ELSE SubSeq(s, 1, Min(hits) - 1) \o repl \o SubSeq(s, Min(hits) + 1, Len(s))

\* normalize_arabic whose diacritic pass stops after the first diacritic
normalize_arabic_first_diacritic(t) ==
    IF t = <<>> THEN t
    ELSE LET t1 == SubChars(t,  AlefForms, <<"u0627">>)
             t2 == SubChars(t1, {"u0649"}, <<"u064a">>)
             t3 == SubChars(t2, {"u0629"}, <<"u0647">>)
         IN  SubFirstChar(t3, Diacritics, <<>>)

normalize_arabic(t) ==
    IF t = <<>> THEN t
    ELSE LET t1 == SubChars(t,  AlefForms, <<"u0627">>)
             t2 == SubChars(t1, {"u0649"}, <<"u064a">>)       \* alef maksura -> yeh
             t3 == SubChars(t2, {"u0629"}, <<"u0647">>)       \* teh marbuta -> heh
         IN  SubChars(t3, Diacritics, <<>>)

(***************************************************************************)
(* DATE_KEYWORDS: the month-name tables                                    *)
(***************************************************************************)
DATE_KEYWORDS_en ==
    << <<"J","a","n","u","a","r","y">>, <<"F","e","b","r","u","a","r","y">>, <<"M","a","r","c","h">>,
       <<"A","p","r","i","l">>, <<"M","a","y">>, <<"J","u","n","e">>,
       <<"J","u","l","y">>, <<"A","u","g","u","s","t">>, <<"S","e","p","t","e","m","b","e","r">>,
       <<"O","c","t","o","b","e","r">>, <<"N","o","v","e","m","b","e","r">>, <<"D","e","c","e","m","b","e","r">>,
       <<"J","a","n">>, <<"F","e","b">>, <<"M","a","r">>,
       <<"A","p","r">>, <<"M","a","y">>, <<"J","u","n">>,
       <<"J","u","l">>, <<"A","u","g">>, <<"S","e","p">>,
       <<"O","c","t">>, <<"N","o","v">>, <<"D","e","c">> >>
DATE_KEYWORDS_es ==
    << <<"e","n","e","r","o">>, <<"f","e","b","r","e","r","o">>, <<"m","a","r","z","o">>,
       <<"a","b","r","i","l">>, <<"m","a","y","o">>, <<"j","u","n","i","o">>,
       <<"j","u","l","i","o">>, <<"a","g","o","s","t","o">>, <<"s","e","p","t","i","e","m","b","r","e">>,
       <<"o","c","t","u","b","r","e">>, <<"n","o","v","i","e","m","b","r","e">>, <<"d","i","c","i","e","m","b","r","e">>,
       <<"e","n","e">>, <<"f","e","b">>, <<"m","a","r">>,
       <<"a","b","r">>, <<"m","a","y">>, <<"j","u","n">>,
       <<"j","u","l">>, <<"a","g","o">>, <<"s","e","p">>,
       <<"o","c","t">>, <<"n","o","v">>, <<"d","i","c">> >>
DATE_KEYWORDS_de ==
    << <<"J","a","n","u","a","r">>, <<"F","e","b","r","u","a","r">>, <<"M","u00e4","r","z">>,
       <<"A","p","r","i","l">>, <<"M","a","i">>, <<"J","u","n","i">>,
       <<"J","u","l","i">>, <<"A","u","g","u","s","t">>, <<"S","e","p","t","e","m","b","e","r">>,
       <<"O","k","t","o","b","e","r">>, <<"N","o","v","e","m","b","e","r">>, <<"D","e","z","e","m","b","e","r">>,
       <<"J","a","n">>, <<"F","e","b">>, <<"M","u00e4","r">>,
       <<"A","p","r">>, <<"M","a","i">>, <<"J","u","n">>,
       <<"J","u","l">>, <<"A","u","g">>, <<"S","e","p">>,
       <<"O","k","t">>, <<"N","o","v">>, <<"D","e","z">> >>
DATE_KEYWORDS_fr ==
    << <<"j","a","n","v","i","e","r">>, <<"f","u00e9","v","r","i","e","r">>, <<"m","a","r","s">>,
       <<"a","v","r","i","l">>, <<"m","a","i">>, <<"j","u","i","n">>,
       <<"j","u","i","l","l","e","t">>, <<"a","o","u00fb","t">>, <<"s","e","p","t","e","m","b","r","e">>,
       <<"o","c","t","o","b","r","e">>, <<"n","o","v","e","m","b","r","e">>, <<"d","u00e9","c","e","m","b","r","e">>,
       <<"j","a","n","v">>, <<"f","u00e9","v","r">>, <<"m","a","r","s">>,
       <<"a","v","r">>, <<"m","a","i">>, <<"j","u","i","n">>,
       <<"j","u","i","l">>, <<"a","o","u00fb","t">>, <<"s","e","p","t">>,
       <<"o","c","t">>, <<"n","o","v">>, <<"d","u00e9","c">> >>
DATE_KEYWORDS_ar ==
    << <<"u064a","u0646","u0627","u064a","u0631">>, <<"u0641","u0628","u0631","u0627","u064a","u0631">>, <<"u0645","u0627","u0631","u0633">>,
       <<"u0627","u0628","u0631","u064a","u0644">>, <<"u0645","u0627","u064a","u0648">>, <<"u064a","u0648","u0646","u064a","u0648">>,
       <<"u064a","u0648","u0644","u064a","u0648">>, <<"u0627","u063a","u0633","u0637","u0633">>, <<"u0633","u0628","u062a","u0645","u0628","u0631">>,
       <<"u0627","u0643","u062a","u0648","u0628","u0631">>, <<"u0646","u0648","u0641","u0645","u0628","u0631">>, <<"u062f","u064a","u0633","u0645","u0628","u0631">> >>

\* dict iteration order: en, es, de, fr, ar
DATE_KEYWORDS ==
    DATE_KEYWORDS_en \o DATE_KEYWORDS_es \o DATE_KEYWORDS_de
        \o DATE_KEYWORDS_fr \o DATE_KEYWORDS_ar

(***************************************************************************)
(* TrieNode / DateFinder.  A TrieNode is identified by the path of         *)
(* characters leading to it from the root; the Trie is the set of existing *)
(* nodes together with the set of nodes whose is_end_of_word flag is set.  *)
(***************************************************************************)
TrieNode == [nodes |-> {<<>>}, ends |-> {}]

Prefixes(w) == {SubSeq(w, 1, n) : n \in 0..Len(w)}

\* the inner loop of _build_trie for one word: node.children[char] creates
\* the missing children, the last node is flagged
InsertWord(tr, w) ==
    LET processed_word == lower(w)
    IN  [nodes |-> tr.nodes \cup Prefixes(processed_word),
         ends  |-> tr.ends \cup {processed_word}]

\* the outer loop of _build_trie: every word is inserted; the insertions only
\* add nodes and flags, so the Trie is the union of the single insertions
_build_trie(tr, words) ==
    LET inserted == {InsertWord(tr, words[k]) : k \in 1..Len(words)}
    IN  [nodes |-> tr.nodes \cup UNION {t.nodes : t \in inserted},
         ends  |-> tr.ends \cup UNION {t.ends : t \in inserted}]

DateFinder(keywords) == _build_trie(TrieNode, keywords)

\* the inner loop of contains_month from position j at Trie node `node`
RECURSIVE TrieWalk(_, _, _, _)
TrieWalk(tr, s, j, node) ==
    IF j > Len(s) THEN FALSE
    ELSE LET child == Append(node, s[j])
         IN  IF child \notin tr.nodes THEN FALSE          \* char not in node.children: break
             ELSE IF child \in tr.ends THEN TRUE          \* node.is_end_of_word
             ELSE TrieWalk(tr, s, j + 1, child)

\* contains_month that lower-cases the text but forgets normalize_arabic
contains_month_unnormalized(tr, t) ==
    LET normalized_text == lower(t)
    IN  \E i \in 1..Len(normalized_text) : TrieWalk(tr, normalized_text, i, <<>>)

contains_month(tr, t) ==
    LET normalized_text == normalize_arabic(lower(t))
    IN  \E i \in 1..Len(normalized_text) : TrieWalk(tr, normalized_text, i, <<>>)

(***************************************************************************)
(* Inputs of the text operations                                           *)
(***************************************************************************)
MaxTextLen  == 3      \* longest arbitrary string given to normalize_arabic
MaxNoiseLen == 2      \* total length of the noise placed around a month word

StringsOver(alphabet, n) == UNION {[1..k -> alphabet] : k \in 0..n}

\* characters normalize_arabic acts on, their images, and an unrelated one
ArabicChars == {"u0623", "u0627", "u0649", "u064a", "u0629", "u0647", "u064e", "a"}

NoiseChars == {"z", "9", "u0623"}

NoisePairs ==
    {p \in StringsOver(NoiseChars, MaxNoiseLen) \X StringsOver(NoiseChars, MaxNoiseLen) :
        Len(p[1]) + Len(p[2]) <= MaxNoiseLen}

\* a diacritic after every letter
Diacritized(w, d) == Concat([i \in 1..Len(w) |-> <<w[i], d>>])

\* the ways a table word w may be written in a text
Spellings(w) ==
    {w, upper(w), lower(w), Diacritized(w, "u064e"), Diacritized(w, "u0651")}
        \cup {SubChars(w, {"u0627"}, <<f>>) : f \in AlefForms}

MonthInputs ==
    UNION {{[text |-> p[1] \o s \o p[2], word |-> w] :
                p \in NoisePairs, s \in Spellings(w)} : w \in Range(DATE_KEYWORDS)}

NormalizerInputs ==
    {[text |-> s, word |-> <<>>] : s \in StringsOver(ArabicChars, MaxTextLen)}

\* words of a dictionary that are not month names and hold no digit
\* "market"
W_market ==
    << "m","a","r","k","e","t" >>

\* "hello"
W_hello ==
    << "h","e","l","l","o" >>

\* "Decide"
W_decide ==
    << "D","e","c","i","d","e" >>

NonMonthWords == {W_market, W_hello, W_decide}

NonMonthInputs == {[text |-> s, word |-> <<>>] : s \in NonMonthWords}

(***************************************************************************)
(* Specification of the text operations                                    *)
(***************************************************************************)
InitText ==
    /\ op = "init"
    /\ trie = DateFinder(DATE_KEYWORDS)
    /\ \E inp \in MonthInputs \cup NormalizerInputs \cup NonMonthInputs :
          /\ text = inp.text
          /\ word = inp.word
    /\ prev_text = <<>>
    /\ calls = 0
    /\ found = FALSE
    /\ IdleDoc /\ IdleTitle /\ IdleNode /\ IdleDate /\ IdleWorkers /\ IdleGeo /\ IdleHeur /\ IdleClean
    /\ raised = FALSE

\* text = normalize_arabic(text)
NormalizeArabic ==
    /\ calls < 2
    /\ op # "contains_month"
    /\ op' = "normalize_arabic"
    /\ prev_text' = text
    /\ text' = normalize_arabic(text)
    /\ calls' = calls + 1
    /\ UNCHANGED <<word, trie, found, raised, docVars, titleVars, nodeVars, dateVars, workers, geoVars, heurVars, cleanVars>>

\* found = date_finder.contains_month(text)
ContainsMonth ==
    /\ op = "init"
    /\ op' = "contains_month"
    /\ found' = contains_month(trie, text)
    /\ UNCHANGED <<text, word, prev_text, calls, trie, raised, docVars, titleVars, nodeVars, dateVars, workers, geoVars, heurVars, cleanVars>>

NextText == NormalizeArabic \/ ContainsMonth

SpecText == InitText /\ [][NextText]_vars

\* C9: normalize_arabic is idempotent (a second application changes nothing)
\* and returns the empty string unchanged.
C9_Idempotent ==
    /\ (calls = 2 => text = prev_text)
    /\ (calls = 1 /\ prev_text = <<>> => text = <<>>)

C9_Witness ==
    /\ calls = 2
    /\ prev_text # <<>>
    /\ \E i \in 1..Len(prev_text) : prev_text[i] \in {"u0627", "u064a", "u0647"}

\* C10: every word of the month tables is found by contains_month, alone or
\* surrounded by arbitrary text, in upper case and in non-normalized Arabic
\* spellings.
C10_MonthWordsFound ==
    (op = "contains_month" /\ word # <<>>) => found = TRUE

C10_Witness ==
    /\ op = "contains_month"
    /\ word # <<>>
    /\ found = TRUE
    /\ \E i \in 1..Len(text) : text[i] \in {"u0623", "u0622", "u0625"}
    /\ \E i \in 1..Len(word) : word[i] = "u0627"
    /\ Len(text) > Len(word)

\* the text is one of the words of the month tables, in any case or spelling
IsMonthName(t) ==
    normalize_arabic(lower(t)) \in {lower(DATE_KEYWORDS[k]) : k \in 1..Len(DATE_KEYWORDS)}

HasDigit(t) == \E i \in 1..Len(t) : t[i] \in {"0", "1", "2", "3", "4", "5", "6", "7", "8", "9"}

\* C11: for every string that is not a month name of the tables and holds no
\* digit, contains_month is false.
C11_NonMonthNotFound ==
    (op = "contains_month" /\ ~IsMonthName(text) /\ ~HasDigit(text)) => found = FALSE

(***************************************************************************)
(* More string operations of the Python runtime                            *)
(***************************************************************************)
Whitespace == {" "}

StartsWith(s, pat) == Len(pat) <= Len(s) /\ SubSeq(s, 1, Len(pat)) = pat

\* pat in s
Contains(s, pat) ==
    \E i \in 1..(Len(s) - Len(pat) + 1) : SubSeq(s, i, i + Len(pat) - 1) = pat

\* the positions in i..Len(s) where pat occurs
Occurrences(s, pat, i) ==
    {j \in i..(Len(s) - Len(pat) + 1) : SubSeq(s, j, j + Len(pat) - 1) = pat}

\* s.replace(pat, repl), pat not empty: the leftmost occurrence from i on is
\* replaced, then the ones after it
RECURSIVE ReplaceFrom(_, _, _, _)
ReplaceAt(s, pat, repl, i, found_at) ==
    IF found_at = {} THEN SubSeq(s, i, Len(s))
    ELSE SubSeq(s, i, Min(found_at) - 1) \o repl
         \o ReplaceFrom(s, pat, repl, Min(found_at) + Len(pat))

ReplaceFrom(s, pat, repl, i) == ReplaceAt(s, pat, repl, i, Occurrences(s, pat, i))

ReplaceAll(s, pat, repl) == ReplaceFrom(s, pat, repl, 1)

\* re.split on a literal separator: the pieces between the leftmost
\* non-overlapping occurrences from i on
RECURSIVE SplitFrom(_, _, _)
SplitAt(s, sep, i, found_at) ==
    IF found_at = {} THEN <<SubSeq(s, i, Len(s))>>
    ELSE <<SubSeq(s, i, Min(found_at) - 1)>> \o SplitFrom(s, sep, Min(found_at) + Len(sep))

SplitFrom(s, sep, i) == SplitAt(s, sep, i, Occurrences(s, sep, i))

Split(s, sep) == SplitFrom(s, sep, 1)

\* s.strip(chars), s.lstrip(chars), s.rstrip(chars)
StripChars(s, cs) ==
    LET kept == {i \in 1..Len(s) : s[i] \notin cs}
    IN  IF kept = {} THEN <<>> ELSE SubSeq(s, Min(kept), Max(kept))

LStripChars(s, cs) ==
    LET kept == {i \in 1..Len(s) : s[i] \notin cs}
    IN  IF kept = {} THEN <<>> ELSE SubSeq(s, Min(kept), Len(s))

RStripChars(s, cs) ==
    LET kept == {i \in 1..Len(s) : s[i] \notin cs}
    IN  IF kept = {} THEN <<>> ELSE SubSeq(s, 1, Max(kept))

LStrip(s) == LStripChars(s, Whitespace)

RStrip(s) == RStripChars(s, Whitespace)

Strip(s) == StripChars(s, Whitespace)

\* len(s.split()): the number of maximal runs of non-whitespace characters
WordCount(s) ==
    Cardinality({i \in 1..Len(s) :
        s[i] \notin Whitespace /\ (i = 1 \/ s[i - 1] \in Whitespace)})

\* list.sort(key=score, reverse=True): descending and stable; an entry
\* comes after the entries with a higher score and the earlier entries with
\* its score
SortRank(cs, i) ==
    1 + Cardinality({j \in 1..Len(cs) :
            cs[j].score > cs[i].score \/ (cs[j].score = cs[i].score /\ j < i)})

\* a descending sort that puts the later of two equal scores first
SortDescLastFirst(cs) ==
    [k \in 1..Len(cs) |->
        cs[CHOOSE i \in 1..Len(cs) :
              Cardinality({j \in 1..Len(cs) :
                  cs[j].score > cs[i].score \/ (cs[j].score = cs[i].score /\ j >= i)}) = k]] \o <<>>

SortDesc(cs) ==
    [k \in 1..Len(cs) |-> cs[CHOOSE i \in 1..Len(cs) : SortRank(cs, i) = k]] \o <<>>

(***************************************************************************)
(* Documents.  A document is the sequence of its elements in document      *)
(* order; an element is identified by its position, 0 stands for None.     *)
(* Element fields: tag, parent, attrs (attribute name -> value) and text   *)
(* (what parser.getText returns for the element).                          *)
(***************************************************************************)
None == 0

Element(tag, parent, attrs, txt) ==
    [tag |-> tag, parent |-> parent, attrs |-> attrs, text |-> txt]

NoAttrs == <<>>

\* parser.getAttribute: None and '' are both read as "no value"
getAttribute(d, n, a) ==
    IF a \in DOMAIN d[n].attrs THEN d[n].attrs[a] ELSE <<>>

getParent(d, n) == d[n].parent

\* parser.setAttribute(node, attr, value)
setAttribute(d, n, a, v) ==
    [d EXCEPT ![n].attrs = [x \in (DOMAIN @) \cup {a} |-> IF x = a THEN v ELSE @[x]]]

\* the document after a list of setAttribute calls, made in order
RECURSIVE document_after(_, _)
document_after(d, writes) ==
    IF writes = <<>> THEN d
    ELSE document_after(setAttribute(d, Head(writes).node, Head(writes).attribute,
                                     Head(writes).value),
                        Tail(writes))

\* the writes get_title and get_publishing_date make on the document they are
\* given: both only read it (getElementsByTag(s), getText, getAttribute,
\* getParent, css_select, getpath, xpath)
get_title_writes(d) == <<>>

get_publishing_date_writes_scored(d) ==
    <<[node |-> 1, attribute |-> "gravityScore", value |-> <<"0">>]>>

get_publishing_date_writes(d) == <<>>

\* ' '.join(texts): the non-empty texts of the elements, separated by a space
JoinTexts(d, ns) ==
    LET texts == SelectSeq(ns, LAMBDA n : d[n].text # <<>>)
    IN  Concat([k \in 1..Len(texts) |->
                   IF k = 1 THEN d[texts[k]].text ELSE <<" ">> \o d[texts[k]].text])

\* the children of n (n = None: the root elements), in sibling order
ChildrenOf(d, n) == SelectSeq([m \in 1..Len(d) |-> m], LAMBDA m : d[m].parent = n)

\* document order: an element, then the subtrees of its children (a list of
\* siblings is halved, which keeps the evaluation shallow)
RECURSIVE PreOrder(_, _)
PreOrder(d, ns) ==
    IF ns = <<>> THEN <<>>
    ELSE IF Len(ns) = 1 THEN <<ns[1]>> \o PreOrder(d, ChildrenOf(d, ns[1]))
    ELSE PreOrder(d, SubSeq(ns, 1, Len(ns) \div 2))
         \o PreOrder(d, SubSeq(ns, (Len(ns) \div 2) + 1, Len(ns)))

DocumentOrder(d) == PreOrder(d, ChildrenOf(d, None))

\* parser.getText(node): the text of the element and of its descendants, in
\* document order, joined and trimmed
getText(d, n) == Strip(JoinTexts(d, PreOrder(d, <<n>>)))

\* parser.getElementsByTags / getElementsByTag(tag=...): document order
getElementsByTags(d, tags) ==
    SelectSeq(DocumentOrder(d), LAMBDA n : d[n].tag \in tags)

RECURSIVE Ancestors(_, _)
Ancestors(d, n) ==
    IF d[n].parent = None THEN {}
    ELSE {d[n].parent} \cup Ancestors(d, d[n].parent)

\* node.iterdescendants()
Descendants(d, n) == {m \in 1..Len(d) : n \in Ancestors(d, m)}

\* position of n among the siblings that carry its tag, and their number
SameTagSiblings(d, n) ==
    {m \in 1..Len(d) : d[m].parent = d[n].parent /\ d[m].tag = d[n].tag}

TagPosition(d, n) == Cardinality({m \in SameTagSiblings(d, n) : m <= n})

\* tree.getpath(node): one segment per level, with a positional index only
\* when several siblings carry the tag (idx 0: no index)
RECURSIVE getpath(_, _)
getpath(d, n) ==
    IF n = None THEN <<>>
    ELSE getpath(d, d[n].parent)
         \o << [tag |-> d[n].tag,
                idx |-> IF Cardinality(SameTagSiblings(d, n)) > 1
                        THEN TagPosition(d, n) ELSE 0] >>

Depth(d, n) == Cardinality(Ancestors(d, n)) + 1

\* the ancestor-or-self of n at the given depth
RECURSIVE AtDepth(_, _, _)
AtDepth(d, n, k) ==
    IF Depth(d, n) = k THEN n ELSE AtDepth(d, d[n].parent, k)

\* tree.xpath(path) for an absolute child path: a segment without index
\* selects every child with the tag, a segment with index k the k-th one
xpath(d, path) ==
    SelectSeq(DocumentOrder(d), LAMBDA n :
        /\ Depth(d, n) = Len(path)
        /\ \A k \in 1..Len(path) :
              LET a == AtDepth(d, n, k)
              IN  /\ d[a].tag = path[k].tag
                  /\ path[k].idx \in {0, TagPosition(d, a)})

(***************************************************************************)
(* Title finder: constants                                                 *)
(***************************************************************************)
\* "og:title"
S_og_title ==
    << "o","g",":","t","i","t","l","e" >>

\* "title"
S_title ==
    << "t","i","t","l","e" >>

\* "headline"
S_headline ==
    << "h","e","a","d","l","i","n","e" >>

\* "heading"
S_heading ==
    << "h","e","a","d","i","n","g" >>

\* "related-posts"
S_related_posts ==
    << "r","e","l","a","t","e","d","-","p","o","s","t","s" >>

\* "comments"
S_comments ==
    << "c","o","m","m","e","n","t","s" >>

\* "e-loop-item"
S_e_loop_item ==
    << "e","-","l","o","o","p","-","i","t","e","m" >>

\* "post-navigation"
S_post_navigation ==
    << "p","o","s","t","-","n","a","v","i","g","a","t","i","o","n" >>

\* "post-title"
S_post_title ==
    << "p","o","s","t","-","t","i","t","l","e" >>

\* "&#65533;"
MOTLEY_PATTERN ==
    << "&","#","6","5","5","3","3",";" >>

\* "&raquo;"
RAQUO_ENTITY ==
    << "&","r","a","q","u","o",";" >>

\* "Generic Site"
T_site ==
    << "G","e","n","e","r","i","c"," ","S","i","t","e" >>

\* "Real Article Headline About X"
T_headline ==
    << "R","e","a","l"," ","A","r","t","i","c","l","e"," ","H","e","a","d","l","i","n","e"," ","A","b","o",
       "u","t"," ","X" >>

\* "Breaking News"
T_short ==
    << "B","r","e","a","k","i","n","g"," ","N","e","w","s" >>

\* "The mayor said: taxes will rise. Read more | Generic Site"
T_sentence ==
    << "T","h","e"," ","m","a","y","o","r"," ","s","a","i","d",":"," ","t","a","x","e","s"," ","w","i","l",
       "l"," ","r","i","s","e","."," ","R","e","a","d"," ","m","o","r","e"," ","|"," ","G","e","n","e","r",
       "i","c"," ","S","i","t","e" >>

\* "of of of of of of of of of of of of of of of of of of of of of of of of of of"
T_wordy ==
    << "o","f"," ","o","f"," ","o","f"," ","o","f"," ","o","f"," ","o","f"," ","o","f"," ","o","f"," ","o",
       "f"," ","o","f"," ","o","f"," ","o","f"," ","o","f"," ","o","f"," ","o","f"," ","o","f"," ","o","f",
       " ","o","f"," ","o","f"," ","o","f"," ","o","f"," ","o","f"," ","o","f"," ","o","f"," ","o","f"," ",
       "o","f" >>

\* "Real Article Headline About X | Generic Site"
T_piped ==
    << "R","e","a","l"," ","A","r","t","i","c","l","e"," ","H","e","a","d","l","i","n","e"," ","A","b","o",
       "u","t"," ","X"," ","|"," ","G","e","n","e","r","i","c"," ","S","i","t","e" >>

\* "Generic Site - Real Article Headline About X &raquo; World&#65533;"
T_dashed ==
    << "G","e","n","e","r","i","c"," ","S","i","t","e"," ","-"," ","R","e","a","l"," ","A","r","t","i","c",
       "l","e"," ","H","e","a","d","l","i","n","e"," ","A","b","o","u","t"," ","X"," ","&","r","a","q","u",
       "o",";"," ","W","o","r","l","d","&","#","6","5","5","3","3",";" >>

\* "Real Article Headline About X - Generic Site News Portal"
T_og_dashed ==
    << "R","e","a","l"," ","A","r","t","i","c","l","e"," ","H","e","a","d","l","i","n","e"," ","A","b","o",
       "u","t"," ","X"," ","-"," ","G","e","n","e","r","i","c"," ","S","i","t","e"," ","N","e","w","s"," ",
       "P","o","r","t","a","l" >>

\* " real article headline about x! | Site"
T_og_piped ==
    << " ","r","e","a","l"," ","a","r","t","i","c","l","e"," ","h","e","a","d","l","i","n","e"," ","a","b",
       "o","u","t"," ","x","!"," ","|"," ","S","i","t","e" >>

Infinity == 1000000        \* float('inf')

\* StringSplitter patterns
PIPE_SPLITTER       == <<"|">>
DASH_SPLITTER       == <<" ", "-", " ">>
UNDERSCORE_SPLITTER == <<"_">>
SLASH_SPLITTER      == <<"/">>
ARROWS_SPLITTER     == <<" ", "u00bb", " ">>
COLON_SPLITTER      == <<":">>
SPACE_SPLITTER      == <<" ">>

Splitters ==
    {PIPE_SPLITTER, DASH_SPLITTER, UNDERSCORE_SPLITTER, SLASH_SPLITTER,
     ARROWS_SPLITTER, COLON_SPLITTER, SPACE_SPLITTER}

\* MOTLEY_REPLACEMENT = StringReplacement("&#65533;", "")
MOTLEY_REPLACEMENT(s) == ReplaceAll(s, MOTLEY_PATTERN, <<>>)

\* TITLE_REPLACEMENTS with the arguments swapped: the character becomes the entity
TITLE_REPLACEMENTS_swapped(s) == ReplaceAll(s, <<"u00bb">>, RAQUO_ENTITY)

\* TITLE_REPLACEMENTS = StringReplacement("&raquo;", "\u00bb")
TITLE_REPLACEMENTS(s) == ReplaceAll(s, RAQUO_ENTITY, <<"u00bb">>)

Digits == {"0", "1", "2", "3", "4", "5", "6", "7", "8", "9"}

\* the characters the filter regex [^a-zA-Z0-9\ ] keeps
AlnumSpace ==
    {AsciiUpper[i] : i \in 1..26} \cup {AsciiLower[i] : i \in 1..26} \cup Digits \cup {" "}

filter_regex_sub(s) == SelectSeq(s, LAMBDA c : c \in AlnumSpace)

(***************************************************************************)
(* split_title                                                             *)
(***************************************************************************)
\* the loop "find the largest title piece"; pieces are numbered from 1
RECURSIVE LargestPiece(_, _, _, _, _)
LargestPiece(title_pieces, hint, i, large_text_length, large_text_index) ==
    IF i > Len(title_pieces) THEN large_text_index
    ELSE LET current == Strip(title_pieces[i])
         IN  IF hint # <<>> /\ Contains(lower(filter_regex_sub(current)), hint)
             THEN i
             ELSE IF Len(current) > large_text_length
                  THEN LargestPiece(title_pieces, hint, i + 1, Len(current), i)
                  ELSE LargestPiece(title_pieces, hint, i + 1,
                                    large_text_length, large_text_index)

split_title(title, splitter, hint) ==
    LET title_pieces == Split(title, splitter)
        filtered_hint == IF hint # <<>> THEN lower(filter_regex_sub(hint)) ELSE hint
        large_text_index == LargestPiece(title_pieces, filtered_hint, 1, 0, 1)
    IN  Strip(TITLE_REPLACEMENTS(title_pieces[large_text_index]))

(***************************************************************************)
(* get_title                                                               *)
(***************************************************************************)
\* get_title.find_corresponding_node: the source path evaluated in the target
find_corresponding_node_title(source_path, target_doc) ==
    IF source_path = <<>> THEN None
    ELSE LET target_nodes == xpath(target_doc, source_path)
         IN  IF target_nodes # <<>> THEN target_nodes[1] ELSE None

\* length of the longest common prefix of two segment lists
RECURSIVE CommonLength(_, _)
CommonLength(p1, p2) ==
    IF p1 = <<>> \/ p2 = <<>> \/ Head(p1) # Head(p2) THEN 0
    ELSE 1 + CommonLength(Tail(p1), Tail(p2))

EmptySegment == [tag |-> "", idx |-> 0]

\* a distance whose common prefix leaves out the empty leading segment
calculate_dom_distance_title_uncommon(d, node1, node2) ==
    IF node1 = None \/ node2 = None THEN Infinity
    ELSE LET path1 == <<EmptySegment>> \o getpath(d, node1)
             path2 == <<EmptySegment>> \o getpath(d, node2)
             common_len == CommonLength(Tail(path1), Tail(path2))
         IN  (Len(path1) - common_len) + (Len(path2) - common_len)

\* get_title.calculate_dom_distance: path.split('/') keeps the empty segment
\* in front of the leading slash
calculate_dom_distance_title(d, node1, node2) ==
    IF node1 = None \/ node2 = None THEN Infinity
    ELSE LET path1 == <<EmptySegment>> \o getpath(d, node1)
             path2 == <<EmptySegment>> \o getpath(d, node2)
             common_len == CommonLength(path1, path2)
         IN  (Len(path1) - common_len) + (Len(path2) - common_len)

\* parser.css_select(d, '.name'): elements whose class list has the name
css_select_class(d, name) ==
    SelectSeq(DocumentOrder(d),
              LAMBDA n : name \in Range(Split(getAttribute(d, n, "class"), <<" ">>)))

\* parser.css_select(d, 'meta[attr="value"]')
css_select_meta(d, attr, value) ==
    SelectSeq(DocumentOrder(d),
              LAMBDA n : d[n].tag = "meta" /\ getAttribute(d, n, attr) = value)

get_meta_content(d, attr, value) ==
    LET meta == css_select_meta(d, attr, value)
    IN  IF meta # <<>> THEN Strip(getAttribute(d, meta[1], "content")) ELSE <<>>

title_penalty_nodes(d) ==
    LET penalty_tags == {"nav", "aside", "sidebar", "footer"}
        penalty_selectors == {S_related_posts, S_comments, S_e_loop_item, S_post_navigation}
    IN  {n \in 1..Len(d) :
            \/ d[n].tag \in penalty_tags
            \/ Range(Split(getAttribute(d, n, "class"), <<" ">>)) \cap penalty_selectors # {}}

\* the score of one heading/paragraph element
title_score(d, tag, mapped_top_node, penalty_nodes) ==
    LET tag_text == Strip(getText(d, tag))
        tag_class_id ==
            lower(getAttribute(d, tag, "class") \o <<" ">> \o getAttribute(d, tag, "id"))
        distance == calculate_dom_distance_title(d, tag, mapped_top_node)
        is_in_top_node ==
            mapped_top_node # None
                /\ (tag = mapped_top_node \/ tag \in Descendants(d, mapped_top_node))
        in_penalty_zone ==
            ({tag} \cup Ancestors(d, tag)) \cap penalty_nodes # {}
    IN    (IF d[tag].tag = "h1" THEN 100 ELSE IF d[tag].tag = "h2" THEN 30 ELSE 0)
        + (IF \E s \in {S_title, S_headline, S_heading} : Contains(tag_class_id, s)
           THEN 85 ELSE 0)
        + (IF is_in_top_node THEN 50 ELSE IF distance <= 4 THEN 80 ELSE 0)
        + (IF d[tag].tag = "p"
              /\ ((\E c \in {".", "?", "!", ":", "u00bb"} : c \in Range(tag_text))
                  \/ WordCount(tag_text) > 25)
           THEN -50 ELSE 0)
        + (IF in_penalty_zone THEN -100 ELSE 0)

\* the loop over potential_tags: the candidates in document order
RECURSIVE title_candidates(_, _, _, _)
title_candidates(d, potential_tags, mapped_top_node, penalty_nodes) ==
    IF potential_tags = <<>> THEN <<>>
    ELSE LET tag == Head(potential_tags)
             tag_text == Strip(getText(d, tag))
             rest == title_candidates(d, Tail(potential_tags), mapped_top_node, penalty_nodes)
         IN  IF tag_text = <<>> \/ Len(tag_text) < 15 \/ Len(tag_text) > 250
             THEN rest
             ELSE <<[score |-> title_score(d, tag, mapped_top_node, penalty_nodes),
                     text |-> tag_text]>> \o rest

\* the loop over the three options comparing the text lengths only
RECURSIVE choose_option_unweighted(_, _, _)
choose_option_unweighted(options, best, highest_score) ==
    IF options = <<>> THEN best
    ELSE LET option == Head(options)
             score == Len(option.text)
         IN  IF option.text = <<>>
             THEN choose_option_unweighted(Tail(options), best, highest_score)
             ELSE IF score > highest_score
                  THEN choose_option_unweighted(Tail(options), <<option>>, score)
                  ELSE choose_option_unweighted(Tail(options), best, highest_score)

\* the loop over the three options; weights are in tenths
RECURSIVE choose_option(_, _, _)
choose_option(options, best, highest_score) ==
    IF options = <<>> THEN best
    ELSE LET option == Head(options)
             score == option.score * Len(option.text)
         IN  IF option.text = <<>>
             THEN choose_option(Tail(options), best, highest_score)
             ELSE IF score > highest_score
                  THEN choose_option(Tail(options), <<option>>, score)
                  ELSE choose_option(Tail(options), best, highest_score)

\* get_title(original_doc, cleaned_doc, top_node): top is the path of
\* top_node in the cleaned document
get_title(d, top) ==
    LET title_element == getElementsByTags(d, {"title"})
        title_text == IF title_element # <<>> THEN getText(d, title_element[1]) ELSE <<>>
        og_property == get_meta_content(d, "property", S_og_title)
        title_og == IF og_property # <<>> THEN og_property
                    ELSE get_meta_content(d, "name", S_og_title)
        mapped_top_node == find_corresponding_node_title(top, d)
        candidates ==
            SortDesc(title_candidates(d, getElementsByTags(d, {"h1", "h2", "h3", "p"}),
                                      mapped_top_node, title_penalty_nodes(d)))
        h_candidate ==
            IF candidates # <<>> /\ candidates[1].score > 70 THEN candidates[1].text ELSE <<>>
        options == << [text |-> h_candidate, score |-> 10, source |-> "Heuristic"],
                      [text |-> title_og,    score |-> 9,  source |-> "OG Meta"],
                      [text |-> title_text,  score |-> 5,  source |-> "Title Tag"] >>
        best == choose_option(options, <<>>, -1)
        chosen == IF best # <<>> THEN best[1].text ELSE <<>>
        hint == IF h_candidate # <<>> THEN h_candidate ELSE title_og
        split == IF Contains(chosen, <<"|">>) THEN split_title(chosen, PIPE_SPLITTER, hint)
                 ELSE IF Contains(chosen, <<" ", "-", " ">>)
                      THEN split_title(chosen, DASH_SPLITTER, hint)
                      ELSE chosen
    IN  [title_h_candidate |-> h_candidate,
         best_option |-> best,
         final_title |-> Strip(MOTLEY_REPLACEMENT(split))]

(***************************************************************************)
(* Inputs of the title finder                                              *)
(***************************************************************************)
MaxFragments == 3     \* number of fragments a split_title argument is built from

Attr1(a, v) == [x \in {a} |-> v]

Attr2(a, v, b, w) == [x \in {a, b} |-> IF x = a THEN v ELSE w]

TitleFragments ==
    {<<"R", "e", "a", "l", " ", "X">>, <<"S", "i", "t", "e">>, <<" ", "|", " ">>,
     <<" ", "-", " ">>, RAQUO_ENTITY, <<"u00bb">>, <<" ">>}

SplitTitles ==
    {Concat(fs) : fs \in UNION {[1..k -> TitleFragments] : k \in 1..MaxFragments}}

SplitHints == {<<>>, <<"S", "i", "t", "e", "!">>, <<"r", "e", "a", "l", " ", "x">>}

\* the path of the top node in the cleaned document: None, the second <div>
\* of <body>, or an element the original document does not have
TopNodePaths ==
    { <<>>,
      << [tag |-> "html", idx |-> 0], [tag |-> "body", idx |-> 0], [tag |-> "div", idx |-> 2] >>,
      << [tag |-> "html", idx |-> 0], [tag |-> "body", idx |-> 0], [tag |-> "article", idx |-> 0] >> }

OgMetas ==
    { NoAttrs,
      Attr2("property", S_og_title, "content", T_headline),
      Attr2("name", S_og_title, "content", T_og_dashed),
      Attr2("property", S_og_title, "content", T_og_piped) }

\* <html><head><title/><meta/></head>
\*   <body><div> x </div><div> y </div><zone> z </zone></body></html>
TitleDocument(title_text, og, x, y, zone) ==
    << Element("html", 0, NoAttrs, <<>>),
       Element("head", 1, NoAttrs, <<>>),
       Element("title", 2, NoAttrs, title_text),
       Element("meta", 2, og, <<>>),
       Element("body", 1, NoAttrs, <<>>),
       Element("div", 5, NoAttrs, <<>>),
       Element(x.tag, 6, x.attrs, x.text),
       Element("div", 5, NoAttrs, <<>>),
       Element(y.tag, 8, NoAttrs, y.text),
       Element(zone.tag, 5, zone.attrs, <<>>),
       Element("h1", 10, Attr1("id", S_headline), T_piped) >>

TitleDocuments ==
    { TitleDocument(tt, og, x, y, zone) :
        tt \in {<<>>, T_site, T_piped, T_dashed},
        og \in OgMetas,
        x \in [tag : {"h1", "h2", "p", "span"},
               attrs : {NoAttrs, Attr1("class", S_post_title)},
               text : {T_headline, T_short, T_sentence}],
        y \in [tag : {"h3", "p"}, text : {T_headline, T_wordy}],
        zone \in { [tag |-> "div", attrs |-> Attr1("class", S_related_posts)],
                   [tag |-> "div", attrs |-> NoAttrs] } }

(***************************************************************************)
(* Specification of the title finder                                       *)
(***************************************************************************)
InitTitle ==
    /\ op = "init"
    /\ trie = DateFinder(DATE_KEYWORDS)
    /\ \/ /\ original_doc \in TitleDocuments
          /\ top_node \in TopNodePaths
          /\ split_args = <<>>
       \/ /\ IdleDoc
          /\ split_args \in [title : SplitTitles, splitter : Splitters, hint : SplitHints]
    /\ title_h_candidate = <<>>
    /\ best_option = <<>>
    /\ final_title = <<>>
    /\ raised = FALSE
    /\ IdleText /\ IdleNode /\ IdleDate /\ IdleWorkers /\ IdleGeo /\ IdleHeur /\ IdleClean

\* final_title = extractor.get_title(original_doc, cleaned_doc, top_node)
GetTitle ==
    /\ op = "init"
    /\ original_doc # <<>>
    /\ \E r \in {get_title(original_doc, top_node)} :
           /\ title_h_candidate' = r.title_h_candidate
           /\ best_option' = r.best_option
           /\ final_title' = r.final_title
    /\ original_doc' = document_after(original_doc, get_title_writes(original_doc))
    /\ op' = "get_title"
    /\ UNCHANGED <<trie, raised, textVars, top_node, nodeVars, split_args, dateVars, workers, geoVars, heurVars, cleanVars>>

\* final_title = extractor.split_title(title, splitter, hint)
SplitTitle ==
    /\ op = "init"
    /\ split_args # <<>>
    /\ final_title' = split_title(split_args.title, split_args.splitter, split_args.hint)
    /\ op' = "split_title"
    /\ UNCHANGED <<trie, raised, textVars, docVars, nodeVars, split_args, title_h_candidate, best_option, dateVars, workers, geoVars, heurVars, cleanVars>>

NextTitle == GetTitle \/ SplitTitle

SpecTitle == InitTitle /\ [][NextTitle]_vars

\* ---- what the claims speak about, stated on the document itself
TitleTagText ==
    IF \E n \in 1..Len(original_doc) : original_doc[n].tag = "title"
    THEN original_doc[CHOOSE n \in 1..Len(original_doc) :
            /\ original_doc[n].tag = "title"
            /\ \A m \in 1..(n - 1) : original_doc[m].tag # "title"].text
    ELSE <<>>

OgTitleText ==
    LET metas(a) == {n \in 1..Len(original_doc) :
                        /\ original_doc[n].tag = "meta"
                        /\ a \in DOMAIN original_doc[n].attrs
                        /\ original_doc[n].attrs[a] = S_og_title
                        /\ "content" \in DOMAIN original_doc[n].attrs}
        first(a) == Strip(original_doc[CHOOSE n \in metas(a) : \A m \in metas(a) : n <= m].attrs["content"])
    IN  IF metas("property") # {} /\ first("property") # <<>> THEN first("property")
        ELSE IF metas("name") # {} THEN first("name")
        ELSE <<>>

ScoredTitleCandidates ==
    title_candidates(original_doc, getElementsByTags(original_doc, {"h1", "h2", "h3", "p"}),
                     find_corresponding_node_title(top_node, original_doc),
                     title_penalty_nodes(original_doc))

\* weight (in tenths) times length of each non-empty option
OptionValues ==
    {v \in { [text |-> title_h_candidate, value |-> 10 * Len(title_h_candidate)],
             [text |-> OgTitleText,       value |-> 9 * Len(OgTitleText)],
             [text |-> TitleTagText,      value |-> 5 * Len(TitleTagText)] } :
        v.text # <<>>}

C8_SplitNotLonger ==
    /\ op = "split_title" => Len(final_title) <= Len(split_args.title)
    /\ (op = "get_title" /\ best_option # <<>>) => Len(final_title) <= Len(best_option[1].text)

\* a split that picked a piece containing the raquo entity
C8_Witness ==
    /\ op = "split_title"
    /\ Contains(split_args.title, RAQUO_ENTITY)
    /\ Contains(split_args.title, split_args.splitter)
    /\ "u00bb" \in Range(final_title)
    /\ Len(final_title) < Len(split_args.title)

(***************************************************************************)
(* Top-node finder: the scoring of the text nodes                          *)
(***************************************************************************)
\* the stopwords of the language the texts of the model are written in
STOP_WORDS ==
    {<<"t", "h", "e">>, <<"o", "f">>, <<"a", "n", "d">>, <<"t", "o">>, <<"i", "n">>,
     <<"i", "s">>, <<"i", "t">>}

\* text.split(): the maximal runs of non-whitespace characters
Words(t) == SelectSeq(Split(t, <<" ">>), LAMBDA w : w # <<>>)

\* stopwords_class(language).get_stopword_count(text).get_stopword_count()
get_stopword_count(t) == Len(SelectSeq(Words(t), LAMBDA w : lower(w) \in STOP_WORDS))

\* word.isalnum()
isalnum(w) == w # <<>> /\ \A i \in 1..Len(w) : w[i] \in AlnumSpace \ {" "}

\* sb = [getText(link) for link in links]; ''.join(sb)
JoinLinkTexts(d, links) == Concat([k \in 1..Len(links) |-> getText(d, links[k])])

\* parser.getElementsByTag(e, tag=...): the descendants of e with the tag
getElementsByTag(d, e, tag) ==
    SelectSeq(PreOrder(d, ChildrenOf(d, e)), LAMBDA n : d[n].tag = tag)

\* score = (num_link_words / words_number) * num_links; dense iff score >= 1.0
\* (the float product is on the same side of 1.0 as the exact one for every
\* word count below 40)
is_highlink_density(d, e) ==
    LET links == getElementsByTag(d, e, "a")
        words == SelectSeq(Words(getText(d, e)), isalnum)
    IN  IF links = <<>> THEN FALSE
        ELSE IF words = <<>> THEN TRUE
        ELSE WordCount(JoinLinkTexts(d, links)) * Len(links) >= Len(words)

\* parser.previousSiblings(node): the preceding siblings, nearest first
Reverse(s) == [k \in 1..Len(s) |-> s[Len(s) + 1 - k]] \o <<>>

previousSiblings(d, n) ==
    Reverse(SelectSeq(ChildrenOf(d, d[n].parent), LAMBDA m : m < n))

walk_siblings(d, n) == previousSiblings(d, n)

\* the loop of is_boostable over the previous siblings
RECURSIVE is_boostable_from(_, _, _)
is_boostable_from(d, nodes, steps_away) ==
    IF nodes = <<>> THEN FALSE
    ELSE IF d[Head(nodes)].tag = "p"
         THEN IF steps_away >= 3 THEN FALSE
              ELSE IF get_stopword_count(getText(d, Head(nodes))) > 5 THEN TRUE
              ELSE is_boostable_from(d, Tail(nodes), steps_away + 1)
         ELSE is_boostable_from(d, Tail(nodes), steps_away)

is_boostable(d, n) == is_boostable_from(d, walk_siblings(d, n), 0)

\* the <p>, then the <pre>, then the <td> elements of the document
nodes_to_check(d) ==
    getElementsByTags(d, {"p"}) \o getElementsByTags(d, {"pre"}) \o getElementsByTags(d, {"td"})

\* the first loop of calculate_best_node
nodes_with_text(d) ==
    SelectSeq(nodes_to_check(d),
              LAMBDA n : get_stopword_count(getText(d, n)) > 2 /\ ~is_highlink_density(d, n))

\* int(x) of the quotient a / b, b > 0: truncation toward zero
TruncDiv(a, b) == IF a >= 0 THEN a \div b ELSE -((-a) \div b)

\* float(gravityScore or 0) + add_to_score, written back with str(); scores are
\* kept in half points, which the str/float round trip represents exactly
update_score(gs, node, add_to_score) == [gs EXCEPT ![node] = @ + add_to_score]

update_node_count(gn, node, add_to_count) == [gn EXCEPT ![node] = @ + add_to_count]

\* parent_nodes.append(node) unless node is in parent_nodes
track(ps, node) == IF node \in Range(ps) THEN ps ELSE Append(ps, node)

\* the upscore of the i-th of nodes_number scored nodes with stopword count sw;
\* booster is kept in quarters (booster4), its square in sixteenths
upscore_of(sw, boostable, starting_boost, nodes_number, i, negative_scoring) ==
    LET booster4 == nodes_number - 4 * (nodes_number - i)
    IN  IF nodes_number > 15 /\ 4 * (nodes_number - i) <= nodes_number
        THEN IF booster4 * booster4 + 16 * negative_scoring > 16 * 40
             THEN sw + 5
             ELSE TruncDiv(16 * sw - booster4 * booster4, 16)
        ELSE IF boostable THEN sw + (50 \div starting_boost)
        ELSE sw

\* a pass that gives the grandparent the whole upscore
score_node_whole_to_grandparent(d, node, acc) ==
    IF acc.raised THEN acc
    ELSE LET boostable == is_boostable(d, node)
             upscore == upscore_of(get_stopword_count(getText(d, node)), boostable,
                                   acc.starting_boost, acc.nodes_number, acc.i,
                                   acc.negative_scoring)
             parent_node == getParent(d, node)
             parent_parent_node == getParent(d, parent_node)
             gs1 == update_score(acc.gravityScore, parent_node, 2 * upscore)
             gn1 == update_node_count(acc.gravityNodes, parent_node, 1)
             ps1 == track(acc.parent_nodes, parent_node)
             boosted == [acc EXCEPT !.starting_boost = IF boostable THEN @ + 1 ELSE @]
         IN  IF parent_node = None THEN [boosted EXCEPT !.raised = TRUE]
             ELSE [boosted EXCEPT
                       !.gravityScore = IF parent_parent_node = None THEN gs1
                                        ELSE update_score(gs1, parent_parent_node, 2 * upscore),
                       !.gravityNodes = IF parent_parent_node = None THEN gn1
                                        ELSE update_node_count(gn1, parent_parent_node, 1),
                       !.parent_nodes = IF parent_parent_node = None THEN ps1
                                        ELSE track(ps1, parent_parent_node),
                       !.cnt = @ + 1,
                       !.i = @ + 1]

\* the scoring loop of calculate_best_node over nodes_with_text; it stops
\* with raised when a node has no parent: update_score(None, ...) reads an
\* attribute of None
\* one pass of the scoring loop; after the exception no pass runs
score_node(d, node, acc) ==
    IF acc.raised THEN acc
    ELSE LET boostable == is_boostable(d, node)
             upscore == upscore_of(get_stopword_count(getText(d, node)), boostable,
                                   acc.starting_boost, acc.nodes_number, acc.i,
                                   acc.negative_scoring)
             parent_node == getParent(d, node)
             parent_parent_node == getParent(d, parent_node)
             gs1 == update_score(acc.gravityScore, parent_node, 2 * upscore)
             gn1 == update_node_count(acc.gravityNodes, parent_node, 1)
             ps1 == track(acc.parent_nodes, parent_node)
             boosted == [acc EXCEPT !.starting_boost = IF boostable THEN @ + 1 ELSE @]
         IN  IF parent_node = None THEN [boosted EXCEPT !.raised = TRUE]
             ELSE [boosted EXCEPT
                       !.gravityScore = IF parent_parent_node = None THEN gs1
                                        ELSE update_score(gs1, parent_parent_node, upscore),
                       !.gravityNodes = IF parent_parent_node = None THEN gn1
                                        ELSE update_node_count(gn1, parent_parent_node, 1),
                       !.parent_nodes = IF parent_parent_node = None THEN ps1
                                        ELSE track(ps1, parent_parent_node),
                       !.cnt = @ + 1,
                       !.i = @ + 1]

\* the scoring loop over nodes[lo..hi], in order (the range is halved, which
\* keeps the evaluation shallow)
RECURSIVE score_nodes_in(_, _, _, _, _)
score_nodes_in(d, nodes, acc, lo, hi) ==
    IF lo > hi THEN acc
    ELSE IF lo = hi THEN score_node(d, nodes[lo], acc)
    ELSE score_nodes_in(d, nodes, score_nodes_in(d, nodes, acc, lo, (lo + hi) \div 2),
                        ((lo + hi) \div 2) + 1, hi)

score_nodes(d, nodes, acc) == score_nodes_in(d, nodes, acc, 1, Len(nodes))

\* get_node_gravity_score(node) or 0
get_score(gs, node) == gs[node]

\* the selection loop: a strictly higher score replaces the top node, and
\* while there is no top node the node at hand becomes it
RECURSIVE select_top_node(_, _, _, _)
select_top_node(gs, ps, top, top_node_score) ==
    IF ps = <<>> THEN top
    ELSE LET e == Head(ps)
             score == get_score(gs, e)
             top1 == IF score > top_node_score THEN e ELSE top
             score1 == IF score > top_node_score THEN score ELSE top_node_score
         IN  select_top_node(gs, Tail(ps), IF top1 = None THEN e ELSE top1, score1)

\* the selection loop over the tracked nodes, unless the scoring loop raised
best_node_of(acc) ==
    [top_node |-> IF acc.raised THEN None
                  ELSE select_top_node(acc.gravityScore, acc.parent_nodes, None, 0),
     gravityScore |-> acc.gravityScore,
     gravityNodes |-> acc.gravityNodes,
     parent_nodes |-> acc.parent_nodes,
     raised |-> acc.raised]

score_nodes_with_text(d, scored) ==
    score_nodes(d, scored,
        [gravityScore |-> [n \in 1..Len(d) |-> 0],
         gravityNodes |-> [n \in 1..Len(d) |-> 0],
         parent_nodes |-> <<>>,
         starting_boost |-> 1,
         cnt |-> 0,
         i |-> 0,
         nodes_number |-> Len(scored),
         negative_scoring |-> 0,
         raised |-> FALSE])

calculate_best_node(d) == best_node_of(score_nodes_with_text(d, nodes_with_text(d)))

\* "the of news"
P_thin ==
    << "t","h","e"," ","o","f"," ","n","e","w","s" >>

\* "the of and news"
P_text ==
    << "t","h","e"," ","o","f"," ","a","n","d"," ","n","e","w","s" >>

\* "it is the end of and to news"
P_rich ==
    << "i","t"," ","i","s"," ","t","h","e"," ","e","n","d"," ","o","f"," ","a","n","d"," ","t","o"," ","n",
       "e","w","s" >>

\* "the news"
P_short ==
    << "t","h","e"," ","n","e","w","s" >>

\* "to"
A_to ==
    << "t","o" >>

\* "in"
A_in ==
    << "i","n" >>

\* "to in is"
A_link ==
    << "t","o"," ","i","n"," ","i","s" >>

\* "the of and"
A_only ==
    << "t","h","e"," ","o","f"," ","a","n","d" >>

(***************************************************************************)
(* Documents of the top-node finder                                        *)
(***************************************************************************)
MaxSmallNodes == 2    \* text nodes of a small document
MaxPasses == 2        \* runs of calculate_best_node on fresh copies of a document

ShortRun == 7         \* text nodes of a short run
LongRun == 21         \* text nodes of a long run

\* <div> R <div> A </div> <div> W <div> B </div> </div> </div>
Containers ==
    << Element("div", None, NoAttrs, <<>>),
       Element("div", 1, NoAttrs, <<>>),
       Element("div", 1, NoAttrs, <<>>),
       Element("div", 3, NoAttrs, <<>>) >>

\* a text node: its own text and the texts of its <a> children
TextKinds ==
    { [text |-> P_thin, links |-> <<>>],
      [text |-> P_text, links |-> <<>>],
      [text |-> P_rich, links |-> <<>>],
      [text |-> P_text, links |-> <<A_link>>],
      [text |-> <<>>, links |-> <<A_link, A_link>>],
      [text |-> <<>>, links |-> <<A_only>>] }

\* the <pre> nodes come with plain text only
PreKinds == { [text |-> P_thin, links |-> <<>>], [text |-> P_text, links |-> <<>>] }

TextItems ==
    [tag : {"p", "td"}, parent : {2, 4}, kind : TextKinds]
    \cup [tag : {"pre"}, parent : {2, 4}, kind : PreKinds]

\* d with one more element and its <a> children
AddItem(d, tag, parent, kind) ==
    d \o <<Element(tag, parent, NoAttrs, kind.text)>>
      \o [k \in 1..Len(kind.links) |-> Element("a", Len(d) + 1, NoAttrs, kind.links[k])]

RECURSIVE AddItems(_, _)
AddItems(d, items) ==
    IF items = <<>> THEN d
    ELSE AddItems(AddItem(d, Head(items).tag, Head(items).parent, Head(items).kind),
                  Tail(items))

SmallDocs ==
    {AddItems(Containers, items) :
        items \in UNION {[1..k -> TextItems] : k \in 0..MaxSmallNodes}}

\* runs of equal text nodes, each with three stopwords
AddRun(d, tag, parent, len) ==
    d \o [k \in 1..len |-> Element(tag, parent, NoAttrs, P_text)]

Runs(lens) == [tag : {"p", "td"}, parent : {2, 4}, len : lens]

BigDocs ==
    {AddRun(AddRun(AddRun(Containers, r1.tag, r1.parent, r1.len),
                   r2.tag, r2.parent, r2.len), r3.tag, r3.parent, r3.len) :
        r1 \in Runs({1, ShortRun}), r2 \in Runs({1, ShortRun}), r3 \in Runs({ShortRun, LongRun})}

\* a parsed fragment: the root element is itself a text node
FragmentDocs ==
    {<<Element(tag, None, NoAttrs, t)>> : tag \in {"p", "pre", "td"}, t \in {P_thin, P_text, P_rich}}
    \cup {<<Element(tag, None, NoAttrs, t), Element("p", 1, NoAttrs, u)>> :
            tag \in {"p", "pre", "td"}, t \in {P_thin, P_text}, u \in {P_thin, P_rich}}

(***************************************************************************)
(* Specification of the top-node finder                                    *)
(***************************************************************************)
InitNode ==
    /\ op = "init"
    /\ trie = DateFinder(DATE_KEYWORDS)
    /\ doc \in SmallDocs \cup BigDocs \cup FragmentDocs
    /\ gravityScore = [n \in 1..Len(doc) |-> 0]
    /\ gravityNodes = [n \in 1..Len(doc) |-> 0]
    /\ parent_nodes = <<>>
    /\ best_node = None
    /\ passes = 0
    /\ raised = FALSE
    /\ IdleText /\ IdleDoc /\ IdleTitle /\ IdleDate /\ IdleWorkers /\ IdleGeo /\ IdleHeur /\ IdleClean

\* top_node = extractor.calculate_best_node(doc), on a freshly parsed copy of doc
CalculateBestNode ==
    /\ passes < MaxPasses
    /\ \E r \in {calculate_best_node(doc)} :
           /\ best_node' = r.top_node
           /\ gravityScore' = r.gravityScore
           /\ gravityNodes' = r.gravityNodes
           /\ parent_nodes' = r.parent_nodes
           /\ raised' = r.raised
    /\ passes' = passes + 1
    /\ op' = "calculate_best_node"
    /\ UNCHANGED <<trie, doc, textVars, docVars, titleVars, dateVars, workers, geoVars, heurVars, cleanVars>>

NextNode == CalculateBestNode

SpecNode == InitNode /\ [][NextNode]_vars

\* the tracked nodes with the highest gravityScore, as positions of parent_nodes
TopScored ==
    {k \in 1..Len(parent_nodes) :
        \A j \in 1..Len(parent_nodes) :
            get_score(gravityScore, parent_nodes[j]) <= get_score(gravityScore, parent_nodes[k])}

\* C4: every entry point is total: on any document, also one where a
\* candidate <p>/<pre>/<td> has no parent, calculate_best_node returns a node
\* or none and raises nothing
C4_Total == op = "calculate_best_node" => ~raised

\* C5: calculate_best_node returns the tracked candidate whose gravityScore is
\* the highest of all tracked candidates, also when every score is zero or
\* negative, and returns none only when no node passes the candidate filter
C5_HighestScore ==
    (op = "calculate_best_node" /\ ~raised) =>
        /\ best_node = None => nodes_with_text(doc) = <<>>
        /\ best_node # None => \E k \in TopScored : parent_nodes[k] = best_node

\* C6: calculate_best_node is deterministic: a second run on a fresh copy of
\* the document returns the node at the same position; and when several
\* tracked candidates share the highest gravityScore, the one tracked first
\* is returned
C6_FirstSeenTie ==
    /\ [][passes = 1 => best_node' = best_node]_vars
    /\ []((op = "calculate_best_node" /\ ~raised /\ Cardinality(TopScored) >= 2) =>
            best_node = parent_nodes[CHOOSE k \in TopScored : \A j \in TopScored : k <= j])

(***************************************************************************)
(* Regular expressions.  A pattern is the syntax tree the re module builds *)
(* for it; matching is the backtracking search of re: ReMatch yields the   *)
(* ways a pattern matches at a position in the order re tries them, so     *)
(* the first one is the match re reports.                                  *)
(***************************************************************************)
Lit(cs) == [t |-> "in", neg |-> FALSE, cs |-> cs]

Not(cs) == [t |-> "in", neg |-> TRUE, cs |-> cs]

Str(s) == [t |-> "str", s |-> s, ic |-> FALSE]

StrI(s) == [t |-> "str", s |-> s, ic |-> TRUE]

Cat(rs) == [t |-> "cat", rs |-> rs]

Alt(rs) == [t |-> "alt", rs |-> rs]

Rep(lo, hi, r) == [t |-> "rep", lo |-> lo, hi |-> hi, r |-> r]

Grp(n, r) == [t |-> "grp", n |-> n, r |-> r]

At(w) == [t |-> "at", w |-> w]

Behind(r) == [t |-> "behind", r |-> r]

\* the upper bound of *, + and {m,}
ReMany == 1000

\* \d, \s and \w over the characters of the model
ReDigit == Digits

ReSpace == Whitespace

\* the letters outside ASCII: U+0621..U+064A and the accented letters of the keywords
UnicodeLetters ==
    {"u0621", "u0622", "u0623", "u0624", "u0625", "u0626", "u0627", "u0628", "u0629", "u062a",
     "u062b", "u062c", "u062d", "u062e", "u062f", "u0630", "u0631", "u0632", "u0633", "u0634",
     "u0635", "u0636", "u0637", "u0638", "u0639", "u063a", "u063b", "u063c", "u063d", "u063e",
     "u063f", "u0640", "u0641", "u0642", "u0643", "u0644", "u0645", "u0646", "u0647", "u0648",
     "u0649", "u064a", "u00c4", "u00c9", "u00db", "u00e4", "u00e9", "u00fb", "u00f6", "u00e0"}

ReWord == (AlnumSpace \ {" "}) \cup {"_"} \cup UnicodeLetters

\* the groups of a match: the span <<first, past>> of each group, <<>> if unset
NoGroups == [n \in 1..7 |-> <<>>]

ReAt(w, s, i) ==
    CASE w = "begin" -> i = 1
      [] w = "end" -> i = Len(s) + 1
      [] w = "boundary" ->
            (i - 1 \in 1..Len(s) /\ s[i - 1] \in ReWord) # (i \in 1..Len(s) /\ s[i] \in ReWord)

ReSetGroup(ms, n, i) ==
    [k \in 1..Len(ms) |-> [pos |-> ms[k].pos, g |-> [ms[k].g EXCEPT ![n] = <<i, ms[k].pos>>]]]
    \o <<>>

RECURSIVE ReMatch(_, _, _, _)
RECURSIVE ReCatIn(_, _, _, _, _)
RECURSIVE ReAlt(_, _, _, _)
RECURSIVE ReRep(_, _, _, _, _)
RECURSIVE ReRepThen(_, _, _, _, _)

\* the characters a one-character pattern accepts
ReIn(r, c) == (c \in r.cs) # r.neg

\* a repeated one-character pattern: the longest run first, then the shorter ones
ReRun(r, s, i, g) ==
    LET run == Min({k \in 0..(Len(s) - i + 1) : i + k > Len(s) \/ ~ReIn(r.r, s[i + k])})
        top == IF run < r.hi THEN run ELSE r.hi
    IN  [k \in 1..(top - r.lo + 1) |-> [pos |-> i + top + 1 - k, g |-> g]] \o <<>>

\* the matches of r in s at position i, given the groups set so far
ReMatch(r, s, i, g) ==
    CASE r.t = "in" ->
            IF i <= Len(s) /\ ReIn(r, s[i]) THEN <<[pos |-> i + 1, g |-> g]>> ELSE <<>>
      [] r.t = "str" ->
            IF i + Len(r.s) - 1 <= Len(s)
               /\ (IF r.ic THEN lower(SubSeq(s, i, i + Len(r.s) - 1))
                           ELSE SubSeq(s, i, i + Len(r.s) - 1)) = r.s
            THEN <<[pos |-> i + Len(r.s), g |-> g]>> ELSE <<>>
      [] r.t = "cat" -> ReCatIn(r.rs, s, <<[pos |-> i, g |-> g]>>, 1, Len(r.rs))
      [] r.t = "alt" -> ReAlt(r.rs, s, i, g)
      [] r.t = "rep" -> IF r.r.t = "in" THEN ReRun(r, s, i, g) ELSE ReRep(r, s, i, g, 0)
      [] r.t = "grp" -> ReSetGroup(ReMatch(r.r, s, i, g), r.n, i)
      [] r.t = "at" -> IF ReAt(r.w, s, i) THEN <<[pos |-> i, g |-> g]>> ELSE <<>>
      [] r.t = "behind" ->
            IF \E j \in 1..i : \E k \in DOMAIN ReMatch(r.r, s, j, g) : ReMatch(r.r, s, j, g)[k].pos = i
            THEN <<[pos |-> i, g |-> g]>> ELSE <<>>

\* r matched after each of the matches ms, in their order
ReThen(ms, r, s) == Concat([k \in 1..Len(ms) |-> ReMatch(r, s, ms[k].pos, ms[k].g)])

\* rs[lo..hi] matched one after the other, starting from the matches ms (the
\* range is halved, which keeps the evaluation shallow)
ReCatIn(rs, s, ms, lo, hi) ==
    IF ms = <<>> THEN <<>>
    ELSE IF lo > hi THEN ms
    ELSE IF lo = hi THEN ReThen(ms, rs[lo], s)
    ELSE ReCatIn(rs, s, ReCatIn(rs, s, ms, lo, (lo + hi) \div 2), ((lo + hi) \div 2) + 1, hi)

\* the alternatives in their order (the list is halved to keep the
\* evaluation shallow)
ReAlt(rs, s, i, g) ==
    IF rs = <<>> THEN <<>>
    ELSE IF Len(rs) = 1 THEN ReMatch(rs[1], s, i, g)
    ELSE ReAlt(SubSeq(rs, 1, Len(rs) \div 2), s, i, g)
         \o ReAlt(SubSeq(rs, (Len(rs) \div 2) + 1, Len(rs)), s, i, g)

\* greedy repetition: one more round first, then stopping here
ReRep(r, s, i, g, n) ==
    (IF n < r.hi THEN ReRepThen(ReMatch(r.r, s, i, g), r, s, i, n + 1) ELSE <<>>)
    \o (IF n >= r.lo THEN <<[pos |-> i, g |-> g]>> ELSE <<>>)

ReRepThen(ms, r, s, i, n) ==
    Concat([k \in 1..Len(ms) |->
               IF ms[k].pos > i THEN ReRep(r, s, ms[k].pos, ms[k].g, n) ELSE <<>>])

\* a match object: the span of the whole match and of the groups; start 0: None
ReNone == [start |-> 0, end |-> 0, g |-> NoGroups]

Matched(m) == m.start > 0

\* the match at position i, if there is one
ReFirst(ms, i) ==
    IF ms # <<>> THEN [start |-> i, end |-> Head(ms).pos, g |-> Head(ms).g] ELSE ReNone

\* the leftmost match that starts in lo..hi (the range is halved to keep the
\* evaluation shallow)
RECURSIVE ReSearchIn(_, _, _, _)
ReSearchElse(m, r, s, lo, hi) == IF Matched(m) THEN m ELSE ReSearchIn(r, s, lo, hi)

ReSearchIn(r, s, lo, hi) ==
    IF lo > hi THEN ReNone
    ELSE IF lo = hi THEN ReFirst(ReMatch(r, s, lo, NoGroups), lo)
    ELSE ReSearchElse(ReSearchIn(r, s, lo, (lo + hi) \div 2), r, s, ((lo + hi) \div 2) + 1, hi)

ReSearchFrom(r, s, i) == ReSearchIn(r, s, i, Len(s) + 1)

\* re.search(pattern, s)
re_search(r, s) == ReSearchFrom(r, s, 1)

\* match.group(0) and match.group(n); an unset group is None, read as ''
group0(s, m) == SubSeq(s, m.start, m.end - 1)

group(s, m, n) == IF m.g[n] = <<>> THEN <<>> ELSE SubSeq(s, m.g[n][1], m.g[n][2] - 1)

\* re.sub(pattern, repl, s) from position i on
RECURSIVE ReSubFrom(_, _, _, _)
ReSubAt(m, r, repl, s, i) ==
    IF ~Matched(m) THEN SubSeq(s, i, Len(s))
    ELSE SubSeq(s, i, m.start - 1) \o repl
         \o (IF m.end > m.start THEN ReSubFrom(r, repl, s, m.end)
             ELSE IF m.start <= Len(s) THEN <<s[m.start]>> \o ReSubFrom(r, repl, s, m.start + 1)
             ELSE <<>>)

ReSubFrom(r, repl, s, i) ==
    IF i > Len(s) + 1 THEN <<>> ELSE ReSubAt(ReSearchFrom(r, s, i), r, repl, s, i)

re_sub(r, repl, s) == ReSubFrom(r, repl, s, 1)

\* re.findall(pattern, s) for a pattern without groups: the matched texts
RECURSIVE ReFindAllFrom(_, _, _)
ReFindAllAt(m, r, s) ==
    IF ~Matched(m) THEN <<>>
    ELSE <<group0(s, m)>>
         \o ReFindAllFrom(r, s, IF m.end > m.start THEN m.end ELSE m.start + 1)

ReFindAllFrom(r, s, i) ==
    IF i > Len(s) + 1 THEN <<>> ELSE ReFindAllAt(ReSearchFrom(r, s, i), r, s)

re_findall(r, s) == ReFindAllFrom(r, s, 1)

(***************************************************************************)
(* datetime: naive or aware wall-clock values; tzinfo is <<>> (None) or    *)
(* the UTC offset in minutes                                               *)
(***************************************************************************)
datetime(year, month, day, hour, minute, second, tzinfo) ==
    [year |-> year, month |-> month, day |-> day,
     hour |-> hour, minute |-> minute, second |-> second, tzinfo |-> tzinfo]

\* None where a datetime is expected
NoneDate == datetime(0, 0, 0, 0, 0, 0, <<>>)

IsLeap(y) == y % 4 = 0 /\ (y % 100 # 0 \/ y % 400 = 0)

DaysInMonth(y, m) ==
    IF m = 2 THEN (IF IsLeap(y) THEN 29 ELSE 28)
    ELSE IF m \in {4, 6, 9, 11} THEN 30 ELSE 31

\* the arguments datetime(...) accepts; the others raise ValueError
ValidDate(y, m, d, h, mi, s) ==
    /\ y \in 1..9999 /\ m \in 1..12 /\ d \in 1..DaysInMonth(y, m)
    /\ h \in 0..23 /\ mi \in 0..59 /\ s \in 0..59

\* days of the proleptic Gregorian calendar since 1970-01-01
DaysFromCivil(y, m, d) ==
    LET yy == IF m <= 2 THEN y - 1 ELSE y
        era == yy \div 400
        yoe == yy - era * 400
        doy == ((153 * (IF m > 2 THEN m - 3 ELSE m + 9) + 2) \div 5) + d - 1
        doe == yoe * 365 + (yoe \div 4) - (yoe \div 100) + doy
    IN  era * 146097 + doe - 719468

\* the wall-clock reading of a datetime (tzinfo dropped): day and second of the day
WallDay(dt) == DaysFromCivil(dt.year, dt.month, dt.day)

WallSecond(dt) == dt.hour * 3600 + dt.minute * 60 + dt.second

\* a - b in seconds, for readings at most limit days apart; beyond that the
\* difference only counts as more than limit days
SecondsBetween(a, b, limit) ==
    LET days == WallDay(a) - WallDay(b)
    IN  IF days > limit THEN (limit + 1) * 86400
        ELSE IF days < -limit THEN -(limit + 1) * 86400
        ELSE days * 86400 + WallSecond(a) - WallSecond(b)

\* int(s) for a string of decimal digits
RECURSIVE int(_)
int(s) ==
    IF s = <<>> THEN 0
    ELSE 10 * int(SubSeq(s, 1, Len(s) - 1))
         + (CHOOSE k \in 0..9 : ToString(k) = s[Len(s)])

\* timedelta(hours=24) if from_heuristic else timedelta(days=7), in seconds
future_threshold(from_heuristic) == IF from_heuristic THEN 24 * 3600 ELSE 7 * 86400

\* dt_naive > comparison_time + future_threshold: tzinfo is dropped on the
\* side that carries one, so the wall-clock readings are compared
IsFuture(dt, now, from_heuristic) ==
    SecondsBetween(dt, now, 30) > future_threshold(from_heuristic)

\* (\d{4})[/-](\d{1,2})[/-](\d{1,2})
url_pattern_ymd ==
    Cat(<<Grp(1, Rep(4, 4, Lit(ReDigit))), Lit({"-", "/"}), Grp(2, Rep(1, 2, Lit(ReDigit))), Lit({"-",
      "/"}), Grp(3, Rep(1, 2, Lit(ReDigit)))>>)

\* (\d{1,2})[/-](\d{1,2})[/-](\d{4})
url_pattern_dmy ==
    Cat(<<Grp(1, Rep(1, 2, Lit(ReDigit))), Lit({"-", "/"}), Grp(2, Rep(1, 2, Lit(ReDigit))), Lit({"-",
      "/"}), Grp(3, Rep(4, 4, Lit(ReDigit)))>>)

url_patterns == <<url_pattern_ymd, url_pattern_dmy>>

\* \b(\d{4})[-./](\d{1,2})[-./](\d{1,2})(?:\s+(\d{1,2}):(\d{1,2})(?::(\d{1,2}))?)?\b
iso_pattern ==
    Cat(<<At("boundary"), Grp(1, Rep(4, 4, Lit(ReDigit))), Lit({"-", ".", "/"}), Grp(2, Rep(1, 2,
      Lit(ReDigit))), Lit({"-", ".", "/"}), Grp(3, Rep(1, 2, Lit(ReDigit))), Rep(0, 1, Cat(<<Rep(1,
      ReMany, Lit(ReSpace)), Grp(4, Rep(1, 2, Lit(ReDigit))), Lit({":"}), Grp(5, Rep(1, 2, Lit(ReDigit))),
      Rep(0, 1, Cat(<<Lit({":"}), Grp(6, Rep(1, 2, Lit(ReDigit)))>>))>>)), At("boundary")>>)

\* \s*-\s*GMT\s*\([^)]+\)\s*
timezone_pattern_1 ==
    Cat(<<Rep(0, ReMany, Lit(ReSpace)), Lit({"-"}), Rep(0, ReMany, Lit(ReSpace)), Str(<<"G", "M",
      "T">>), Rep(0, ReMany, Lit(ReSpace)), Lit({"("}), Rep(1, ReMany, Not({")"})), Lit({")"}), Rep(0,
      ReMany, Lit(ReSpace))>>)

\* \s*GMT\s*[+-]\d{1,2}\s*
timezone_pattern_2 ==
    Cat(<<Rep(0, ReMany, Lit(ReSpace)), Str(<<"G", "M", "T">>), Rep(0, ReMany, Lit(ReSpace)), Lit({"+",
      "-"}), Rep(1, 2, Lit(ReDigit)), Rep(0, ReMany, Lit(ReSpace))>>)

\* \s*UTC\s*[+-]\d{1,2}\s*
timezone_pattern_3 ==
    Cat(<<Rep(0, ReMany, Lit(ReSpace)), Str(<<"U", "T", "C">>), Rep(0, ReMany, Lit(ReSpace)), Lit({"+",
      "-"}), Rep(1, 2, Lit(ReDigit)), Rep(0, ReMany, Lit(ReSpace))>>)

\* \s*\([^)]*GMT[^)]*\)\s*
timezone_pattern_4 ==
    Cat(<<Rep(0, ReMany, Lit(ReSpace)), Lit({"("}), Rep(0, ReMany, Not({")"})), Str(<<"G", "M", "T">>),
      Rep(0, ReMany, Not({")"})), Lit({")"}), Rep(0, ReMany, Lit(ReSpace))>>)

timezone_patterns ==
    <<timezone_pattern_1, timezone_pattern_2, timezone_pattern_3, timezone_pattern_4>>

\* \d{4}[-./]\d{1,2}[-./]\d{1,2}
ymd_order_pattern ==
    Cat(<<Rep(4, 4, Lit(ReDigit)), Lit({"-", ".", "/"}), Rep(1, 2, Lit(ReDigit)), Lit({"-", ".", "/"}),
      Rep(1, 2, Lit(ReDigit))>>)

\* ([1-9]|1[0-2])/([1-9]|[12][0-9]|3[01])/\d{4}
mdy_order_pattern ==
    Cat(<<Grp(1, Alt(<<Lit({"1", "2", "3", "4", "5", "6", "7", "8", "9"}), Cat(<<Lit({"1"}), Lit({"0",
      "1", "2"})>>)>>)), Lit({"/"}), Grp(2, Alt(<<Lit({"1", "2", "3", "4", "5", "6", "7", "8", "9"}),
      Cat(<<Lit({"1", "2"}), Lit({"0", "1", "2", "3", "4", "5", "6", "7", "8", "9"})>>), Cat(<<Lit({"3"}),
      Lit({"0", "1"})>>)>>)), Lit({"/"}), Rep(4, 4, Lit(ReDigit))>>)

\* ([1-9]|[12][0-9]|3[01])/([1-9]|1[0-2])/\d{4}
dmy_order_pattern ==
    Cat(<<Grp(1, Alt(<<Lit({"1", "2", "3", "4", "5", "6", "7", "8", "9"}), Cat(<<Lit({"1", "2"}),
      Lit({"0", "1", "2", "3", "4", "5", "6", "7", "8", "9"})>>), Cat(<<Lit({"3"}), Lit({"0", "1"})>>)>>)),
      Lit({"/"}), Grp(2, Alt(<<Lit({"1", "2", "3", "4", "5", "6", "7", "8", "9"}), Cat(<<Lit({"1"}),
      Lit({"0", "1", "2"})>>)>>)), Lit({"/"}), Rep(4, 4, Lit(ReDigit))>>)

\* \(([^)]+\d{4}[^)]+)\)
parenthesised_date_pattern ==
    Cat(<<Lit({"("}), Grp(1, Cat(<<Rep(1, ReMany, Not({")"})), Rep(4, 4, Lit(ReDigit)), Rep(1, ReMany,
      Not({")"}))>>)), Lit({")"})>>)

\* ^(Published|Updated|Posted on|Last updated|on)\s*[:]?\s*
DATE_CLEANING_REGEX_en ==
    Cat(<<At("begin"), Grp(1, Alt(<<StrI(<<"p", "u", "b", "l", "i", "s", "h", "e", "d">>), StrI(<<"u",
      "p", "d", "a", "t", "e", "d">>), StrI(<<"p", "o", "s", "t", "e", "d", " ", "o", "n">>), StrI(<<"l",
      "a", "s", "t", " ", "u", "p", "d", "a", "t", "e", "d">>), StrI(<<"o", "n">>)>>)), Rep(0, ReMany,
      Lit(ReSpace)), Rep(0, 1, Lit({":"})), Rep(0, ReMany, Lit(ReSpace))>>)

\* ^(Publicado|Actualizado)\s*(el)?\s*[:]?\s*
DATE_CLEANING_REGEX_es ==
    Cat(<<At("begin"), Grp(1, Alt(<<StrI(<<"p", "u", "b", "l", "i", "c", "a", "d", "o">>), StrI(<<"a",
      "c", "t", "u", "a", "l", "i", "z", "a", "d", "o">>)>>)), Rep(0, ReMany, Lit(ReSpace)), Rep(0,
      1, Grp(2, StrI(<<"e", "l">>))), Rep(0, ReMany, Lit(ReSpace)), Rep(0, 1, Lit({":"})), Rep(0,
      ReMany, Lit(ReSpace))>>)

\* ^(Ver\u00f6ffentlicht|Aktualisiert)\s*(am)?\s*[:]?\s*
DATE_CLEANING_REGEX_de ==
    Cat(<<At("begin"), Grp(1, Alt(<<StrI(<<"v", "e", "r", "u00f6", "f", "f", "e", "n", "t", "l", "i",
      "c", "h", "t">>), StrI(<<"a", "k", "t", "u", "a", "l", "i", "s", "i", "e", "r", "t">>)>>)),
      Rep(0, ReMany, Lit(ReSpace)), Rep(0, 1, Grp(2, StrI(<<"a", "m">>))), Rep(0, ReMany, Lit(ReSpace)),
      Rep(0, 1, Lit({":"})), Rep(0, ReMany, Lit(ReSpace))>>)

\* ^(Publi\u00e9|Mise \u00e0 jour)\s*(le)?\s*[:]?\s*
DATE_CLEANING_REGEX_fr ==
    Cat(<<At("begin"), Grp(1, Alt(<<StrI(<<"p", "u", "b", "l", "i", "u00e9">>), StrI(<<"m", "i", "s",
      "e", " ", "u00e0", " ", "j", "o", "u", "r">>)>>)), Rep(0, ReMany, Lit(ReSpace)), Rep(0, 1, Grp(2,
      StrI(<<"l", "e">>))), Rep(0, ReMany, Lit(ReSpace)), Rep(0, 1, Lit({":"})), Rep(0, ReMany, Lit(ReSpace))>>)

\* ^(\u0646\u0634\u0631 \u0641\u064a|\u062a\u0627\u0631\u064a\u062e \u0627\u0644\u0646\u0634\u0631|\u062a\u062d\u062f\u064a\u062b)\s*[:]?\s*
DATE_CLEANING_REGEX_ar ==
    Cat(<<At("begin"), Grp(1, Alt(<<StrI(<<"u0646", "u0634", "u0631", " ", "u0641", "u064a">>), StrI(<<"u062a",
      "u0627", "u0631", "u064a", "u062e", " ", "u0627", "u0644", "u0646", "u0634", "u0631">>), StrI(<<"u062a",
      "u062d", "u062f", "u064a", "u062b">>)>>)), Rep(0, ReMany, Lit(ReSpace)), Rep(0, 1, Lit({":"})),
      Rep(0, ReMany, Lit(ReSpace))>>)

DATE_CLEANING_REGEXES ==
    <<DATE_CLEANING_REGEX_en, DATE_CLEANING_REGEX_es, DATE_CLEANING_REGEX_de,
      DATE_CLEANING_REGEX_fr, DATE_CLEANING_REGEX_ar>>

\* (?: \b\d{1,2}[-\s/.,th|st|nd|rd]* \b(?:[a-zA-Z\u0621-\u064a]{3,})\b (?:[-\s/.,|]*) \d{1,2}[-\s/.,th|st|nd|rd]* (?:[-\s/.,|]*) \b\d{2,4}\b ), verbose, ignoring case
text_date_pattern ==
    Cat(<<At("boundary"), Rep(1, 2, Lit(ReDigit)), Rep(0, ReMany, Lit({",", "-", ".", "/", "D", "H",
      "N", "R", "S", "T", "d", "h", "n", "r", "s", "t", "|"} \cup ReSpace)), At("boundary"), Rep(3,
      ReMany, Lit({"A", "B", "C", "D", "E", "F", "G", "H", "I", "J", "K", "L", "M", "N", "O", "P",
      "Q", "R", "S", "T", "U", "V", "W", "X", "Y", "Z", "a", "b", "c", "d", "e", "f", "g", "h", "i",
      "j", "k", "l", "m", "n", "o", "p", "q", "r", "s", "t", "u", "v", "w", "x", "y", "z", "u0621",
      "u0622", "u0623", "u0624", "u0625", "u0626", "u0627", "u0628", "u0629", "u062a", "u062b", "u062c",
      "u062d", "u062e", "u062f", "u0630", "u0631", "u0632", "u0633", "u0634", "u0635", "u0636", "u0637",
      "u0638", "u0639", "u063a", "u063b", "u063c", "u063d", "u063e", "u063f", "u0640", "u0641", "u0642",
      "u0643", "u0644", "u0645", "u0646", "u0647", "u0648", "u0649", "u064a"})), At("boundary"), Rep(0,
      ReMany, Lit({",", "-", ".", "/", "|"} \cup ReSpace)), Rep(1, 2, Lit(ReDigit)), Rep(0, ReMany,
      Lit({",", "-", ".", "/", "D", "H", "N", "R", "S", "T", "d", "h", "n", "r", "s", "t", "|"} \cup
      ReSpace)), Rep(0, ReMany, Lit({",", "-", ".", "/", "|"} \cup ReSpace)), At("boundary"), Rep(2,
      4, Lit(ReDigit)), At("boundary")>>)

\* ( \b(19|20)\d{2} [-/.] (0?[1-9]|1[0-2]) [-/.] (0?[1-9]|[12][0-9]|3[01]) (?:[\s|]* (?:[0-2]?\d:[0-5]\d)?)? ), verbose
embedded_numeric_date_pattern ==
    Grp(1, Cat(<<At("boundary"), Grp(2, Alt(<<Str(<<"1", "9">>), Str(<<"2", "0">>)>>)), Rep(2, 2,
      Lit(ReDigit)), Lit({"-", ".", "/"}), Grp(3, Alt(<<Cat(<<Rep(0, 1, Lit({"0"})), Lit({"1", "2",
      "3", "4", "5", "6", "7", "8", "9"})>>), Cat(<<Lit({"1"}), Lit({"0", "1", "2"})>>)>>)), Lit({"-",
      ".", "/"}), Grp(4, Alt(<<Cat(<<Rep(0, 1, Lit({"0"})), Lit({"1", "2", "3", "4", "5", "6", "7",
      "8", "9"})>>), Cat(<<Lit({"1", "2"}), Lit({"0", "1", "2", "3", "4", "5", "6", "7", "8", "9"})>>),
      Cat(<<Lit({"3"}), Lit({"0", "1"})>>)>>)), Rep(0, 1, Cat(<<Rep(0, ReMany, Lit({"|"} \cup ReSpace)),
      Rep(0, 1, Cat(<<Rep(0, 1, Lit({"0", "1", "2"})), Lit(ReDigit), Lit({":"}), Lit({"0", "1", "2",
      "3", "4", "5"}), Lit(ReDigit)>>))>>))>>))

(***************************************************************************)
(* dateparser.parse(text, settings={'DATE_ORDER': order}): the library is  *)
(* modelled on the formats the texts of the model are written in: ISO 8601 *)
(* timestamps, "5 January 2024", "January 5, 2024" and numeric a/b/yyyy    *)
(* dates read in the given order; any other text is not parsed             *)
(***************************************************************************)
\* ^(\d{4})-(\d{1,2})-(\d{1,2})(?:[T ](\d{1,2}):(\d{2})(?::(\d{2}))?)?(Z|[+-]\d{2}:\d{2})?$
dateparser_iso ==
    Cat(<<At("begin"), Grp(1, Rep(4, 4, Lit(ReDigit))), Lit({"-"}), Grp(2, Rep(1, 2, Lit(ReDigit))),
      Lit({"-"}), Grp(3, Rep(1, 2, Lit(ReDigit))), Rep(0, 1, Cat(<<Lit({" ", "T"}), Grp(4, Rep(1,
      2, Lit(ReDigit))), Lit({":"}), Grp(5, Rep(2, 2, Lit(ReDigit))), Rep(0, 1, Cat(<<Lit({":"}),
      Grp(6, Rep(2, 2, Lit(ReDigit)))>>))>>)), Rep(0, 1, Grp(7, Alt(<<Lit({"Z"}), Cat(<<Lit({"+",
      "-"}), Rep(2, 2, Lit(ReDigit)), Lit({":"}), Rep(2, 2, Lit(ReDigit))>>)>>))), At("end")>>)

\* ^(\d{1,2}) ([A-Za-z]+),? (\d{4})$
dateparser_day_month_year ==
    Cat(<<At("begin"), Grp(1, Rep(1, 2, Lit(ReDigit))), Lit({" "}), Grp(2, Rep(1, ReMany, Lit({"A",
      "B", "C", "D", "E", "F", "G", "H", "I", "J", "K", "L", "M", "N", "O", "P", "Q", "R", "S", "T",
      "U", "V", "W", "X", "Y", "Z", "a", "b", "c", "d", "e", "f", "g", "h", "i", "j", "k", "l", "m",
      "n", "o", "p", "q", "r", "s", "t", "u", "v", "w", "x", "y", "z"}))), Rep(0, 1, Lit({","})),
      Lit({" "}), Grp(3, Rep(4, 4, Lit(ReDigit))), At("end")>>)

\* ^([A-Za-z]+) (\d{1,2}),? (\d{4})$
dateparser_month_day_year ==
    Cat(<<At("begin"), Grp(1, Rep(1, ReMany, Lit({"A", "B", "C", "D", "E", "F", "G", "H", "I", "J",
      "K", "L", "M", "N", "O", "P", "Q", "R", "S", "T", "U", "V", "W", "X", "Y", "Z", "a", "b", "c",
      "d", "e", "f", "g", "h", "i", "j", "k", "l", "m", "n", "o", "p", "q", "r", "s", "t", "u", "v",
      "w", "x", "y", "z"}))), Lit({" "}), Grp(2, Rep(1, 2, Lit(ReDigit))), Rep(0, 1, Lit({","})),
      Lit({" "}), Grp(3, Rep(4, 4, Lit(ReDigit))), At("end")>>)

\* ^(\d{1,2})/(\d{1,2})/(\d{4})$
dateparser_numeric ==
    Cat(<<At("begin"), Grp(1, Rep(1, 2, Lit(ReDigit))), Lit({"/"}), Grp(2, Rep(1, 2, Lit(ReDigit))),
      Lit({"/"}), Grp(3, Rep(4, 4, Lit(ReDigit))), At("end")>>)

\* the number of the month an English month name or abbreviation names, or 0
MonthNumber(name) ==
    LET ks == {k \in 1..Len(DATE_KEYWORDS_en) : lower(DATE_KEYWORDS_en[k]) = lower(name)}
    IN  IF ks = {} THEN 0 ELSE (((CHOOSE k \in ks : TRUE) - 1) % 12) + 1

\* a UTC offset "Z" or "+hh:mm" in minutes
UtcOffset(z) ==
    IF z = <<"Z">> THEN 0
    ELSE (IF z[1] = "-" THEN -1 ELSE 1) * (60 * int(SubSeq(z, 2, 3)) + int(SubSeq(z, 5, 6)))

\* datetime(...) or None when the arguments are not a date
DateOrNone(y, m, d, h, mi, s, tz) ==
    IF ValidDate(y, m, d, h, mi, s) THEN datetime(y, m, d, h, mi, s, tz) ELSE NoneDate

dateparser_numeric_date(s, m, order) ==
    CASE order = "MDY" ->
            DateOrNone(int(group(s, m, 3)), int(group(s, m, 1)), int(group(s, m, 2)), 0, 0, 0, <<>>)
      [] order = "DMY" ->
            DateOrNone(int(group(s, m, 3)), int(group(s, m, 2)), int(group(s, m, 1)), 0, 0, 0, <<>>)
      [] OTHER -> NoneDate

dateparser_iso_date(s, m) ==
    DateOrNone(int(group(s, m, 1)), int(group(s, m, 2)), int(group(s, m, 3)),
               int(group(s, m, 4)), int(group(s, m, 5)), int(group(s, m, 6)),
               IF group(s, m, 7) = <<>> THEN <<>> ELSE <<UtcOffset(group(s, m, 7))>>)

dateparser_text_date(s, m, day_group, month_group) ==
    DateOrNone(int(group(s, m, 3)), MonthNumber(group(s, m, month_group)),
               int(group(s, m, day_group)), 0, 0, 0, <<>>)

dateparser_first(s, order, iso, dmy, mdy, num) ==
    IF Matched(iso) THEN dateparser_iso_date(s, iso)
    ELSE IF Matched(dmy) THEN dateparser_text_date(s, dmy, 1, 2)
    ELSE IF Matched(mdy) THEN dateparser_text_date(s, mdy, 2, 1)
    ELSE IF Matched(num) THEN dateparser_numeric_date(s, num, order)
    ELSE NoneDate

dateparser_parse(t, order) ==
    dateparser_first(Strip(t), order,
                     re_search(dateparser_iso, Strip(t)),
                     re_search(dateparser_day_month_year, Strip(t)),
                     re_search(dateparser_month_day_year, Strip(t)),
                     re_search(dateparser_numeric, Strip(t)))

(***************************************************************************)
(* _extract_best_date_string                                               *)
(***************************************************************************)
\* step 2: every language's prefix pattern is removed in turn
RECURSIVE strip_prefixes(_, _)
strip_prefixes(cleaned_text, regexes) ==
    IF regexes = <<>> THEN cleaned_text
    ELSE strip_prefixes(re_sub(Head(regexes), <<>>, cleaned_text), Tail(regexes))

\* steps 3 to 5 on the cleaned text
extract_from_cleaned(cleaned_text, text_match, numeric_match) ==
    IF Matched(text_match) THEN Strip(group0(cleaned_text, text_match))
    ELSE IF Matched(numeric_match) THEN Strip(group0(cleaned_text, numeric_match))
    ELSE Strip(cleaned_text)

extract_cleaned(cleaned_text) ==
    extract_from_cleaned(cleaned_text,
                         re_search(text_date_pattern, cleaned_text),
                         re_search(embedded_numeric_date_pattern, cleaned_text))

\* step 1, else the steps on the cleaned text
extract_from_parentheses(t, paren_match) ==
    IF Matched(paren_match) THEN Strip(group(t, paren_match, 1))
    ELSE extract_cleaned(strip_prefixes(t, DATE_CLEANING_REGEXES))

_extract_best_date_string(t) ==
    extract_from_parentheses(t, re_search(parenthesised_date_pattern, t))

(***************************************************************************)
(* parse_and_validate                                                      *)
(***************************************************************************)
\* dt_class(year, month, day) behind the range test; ValueError is passed over
url_date_of(year, month, day) ==
    IF month \in 1..12 /\ day \in 1..31 /\ ValidDate(year, month, day, 0, 0, 0)
    THEN datetime(year, month, day, 0, 0, 0, <<>>)
    ELSE NoneDate

\* the groups read month-day-year first
url_match_date_month_first(g1, g2, g3) ==
    IF Len(g1) = 4 THEN url_date_of(int(g1), int(g2), int(g3))
    ELSE IF url_date_of(int(g3), int(g1), int(g2)) # NoneDate
         THEN url_date_of(int(g3), int(g1), int(g2))
         ELSE url_date_of(int(g3), int(g2), int(g1))

\* the body of the loop over url_patterns for a match: year first when the
\* first group has four digits, else day-month-year, then month-day-year
url_match_date(g1, g2, g3) ==
    IF Len(g1) = 4 THEN url_date_of(int(g1), int(g2), int(g3))
    ELSE IF url_date_of(int(g3), int(g2), int(g1)) # NoneDate
         THEN url_date_of(int(g3), int(g2), int(g1))
         ELSE url_date_of(int(g3), int(g1), int(g2))

RECURSIVE url_branch(_, _)
url_branch_match(clean_url_date, patterns, m) ==
    IF Matched(m)
       /\ url_match_date(group(clean_url_date, m, 1), group(clean_url_date, m, 2),
                         group(clean_url_date, m, 3)) # NoneDate
    THEN url_match_date(group(clean_url_date, m, 1), group(clean_url_date, m, 2),
                        group(clean_url_date, m, 3))
    ELSE url_branch(clean_url_date, Tail(patterns))

\* the URL branch: the date it returns, or None when it falls through; the
\* date is returned as it is, with no comparison against now
url_branch(clean_url_date, patterns) ==
    IF patterns = <<>> THEN NoneDate
    ELSE url_branch_match(clean_url_date, patterns, re_search(Head(patterns), clean_url_date))

\* the ISO branch: done with a value (a date, or None for a future date), or
\* not done when the pattern does not match or the numbers are not a date
iso_branch(date_str, m, from_heuristic, now) ==
    LET year == int(group(date_str, m, 1))
        month == int(group(date_str, m, 2))
        day == int(group(date_str, m, 3))
        hour == int(group(date_str, m, 4))
        minute == int(group(date_str, m, 5))
        second == int(group(date_str, m, 6))
        dt == datetime(year, month, day, hour, minute, second, <<>>)
    IN  IF Matched(m) /\ month \in 1..12 /\ day \in 1..31
           /\ ValidDate(year, month, day, hour, minute, second)
        THEN [done |-> TRUE, value |-> IF IsFuture(dt, now, from_heuristic) THEN NoneDate ELSE dt]
        ELSE [done |-> FALSE, value |-> NoneDate]

\* the timezone suffixes are removed pattern by pattern, trimming each time
RECURSIVE clean_timezone(_, _)
clean_timezone(clean_attempt, patterns) ==
    IF patterns = <<>> THEN clean_attempt
    ELSE clean_timezone(Strip(re_sub(Head(patterns), <<>>, clean_attempt)), Tail(patterns))

\* settings['DATE_ORDER']
date_order(clean_attempt, from_url) ==
    IF from_url THEN "YMD"
    ELSE IF Matched(re_search(ymd_order_pattern, clean_attempt)) THEN "YMD"
    ELSE IF Matched(re_search(mdy_order_pattern, clean_attempt)) THEN "MDY"
    ELSE IF Matched(re_search(dmy_order_pattern, clean_attempt)) THEN "DMY"
    ELSE "MDY"

parse_attempt(clean_attempt, from_url) ==
    dateparser_parse(clean_attempt, date_order(clean_attempt, from_url))

\* the loop over parsing_attempts: the first date that is not in the future
RECURSIVE try_attempts(_, _, _, _)
try_attempt(dt, attempts, from_heuristic, from_url, now) ==
    IF dt # NoneDate /\ ~IsFuture(dt, now, from_heuristic) THEN dt
    ELSE try_attempts(Tail(attempts), from_heuristic, from_url, now)

try_attempts(attempts, from_heuristic, from_url, now) ==
    IF attempts = <<>> THEN NoneDate
    ELSE IF Head(attempts) = <<>> THEN try_attempts(Tail(attempts), from_heuristic, from_url, now)
    ELSE try_attempt(parse_attempt(clean_timezone(Head(attempts), timezone_patterns), from_url),
                     attempts, from_heuristic, from_url, now)

\* parsing_attempts: the string, and for a heuristic call its best substring
parsing_attempts(date_str, from_heuristic, best_substring) ==
    IF from_heuristic /\ best_substring # date_str /\ best_substring # <<>>
    THEN <<date_str, best_substring>>
    ELSE <<date_str>>

dateparser_branch(date_str, from_heuristic, from_url, now) ==
    try_attempts(parsing_attempts(date_str, from_heuristic,
                                  IF from_heuristic THEN _extract_best_date_string(date_str)
                                  ELSE <<>>),
                 from_heuristic, from_url, now)

after_url_branch(iso, date_str, from_heuristic, from_url, now) ==
    IF iso.done THEN iso.value
    ELSE dateparser_branch(date_str, from_heuristic, from_url, now)

after_url(url_dt, date_str, from_heuristic, from_url, now) ==
    IF url_dt # NoneDate THEN url_dt
    ELSE after_url_branch(iso_branch(date_str, re_search(iso_pattern, date_str), from_heuristic, now),
                          date_str, from_heuristic, from_url, now)

parse_and_validate(date_str, from_heuristic, from_url, now) ==
    IF date_str = <<>> THEN NoneDate
    ELSE after_url(IF from_url THEN url_branch(StripChars(date_str, {"/"}), url_patterns)
                   ELSE NoneDate,
                   date_str, from_heuristic, from_url, now)

(***************************************************************************)
(* Publication date finder: the patterns and tables of get_publishing_date *)
(***************************************************************************)
\* \b\d{1,2}[/-]\d{1,2}[/-]\d{2,4}\b
strict_pattern_1 ==
    Cat(<<At("boundary"), Rep(1, 2, Lit(ReDigit)), Lit({"-", "/"}), Rep(1, 2, Lit(ReDigit)), Lit({"-",
      "/"}), Rep(2, 4, Lit(ReDigit)), At("boundary")>>)

\* \b\d{4}[/-]\d{1,2}[/-]\d{1,2}\b
strict_pattern_2 ==
    Cat(<<At("boundary"), Rep(4, 4, Lit(ReDigit)), Lit({"-", "/"}), Rep(1, 2, Lit(ReDigit)), Lit({"-",
      "/"}), Rep(1, 2, Lit(ReDigit)), At("boundary")>>)

\* \b\d{1,2}\s+(january|february|march|april|may|june|july|august|september|october|november|december)\s+\d{4}\b
strict_pattern_3 ==
    Cat(<<At("boundary"), Rep(1, 2, Lit(ReDigit)), Rep(1, ReMany, Lit(ReSpace)), Grp(1, Alt(<<Str(<<"j",
      "a", "n", "u", "a", "r", "y">>), Str(<<"f", "e", "b", "r", "u", "a", "r", "y">>), Str(<<"m",
      "a", "r", "c", "h">>), Str(<<"a", "p", "r", "i", "l">>), Str(<<"m", "a", "y">>), Str(<<"j",
      "u", "n", "e">>), Str(<<"j", "u", "l", "y">>), Str(<<"a", "u", "g", "u", "s", "t">>), Str(<<"s",
      "e", "p", "t", "e", "m", "b", "e", "r">>), Str(<<"o", "c", "t", "o", "b", "e", "r">>), Str(<<"n",
      "o", "v", "e", "m", "b", "e", "r">>), Str(<<"d", "e", "c", "e", "m", "b", "e", "r">>)>>)), Rep(1,
      ReMany, Lit(ReSpace)), Rep(4, 4, Lit(ReDigit)), At("boundary")>>)

\* \b\d{1,2}\s+(\u064a\u0646\u0627\u064a\u0631|\u0641\u0628\u0631\u0627\u064a\u0631|\u0645\u0627\u0631\u0633|\u0623\u0628\u0631\u064a\u0644|\u0645\u0627\u064a\u0648|\u064a\u0648\u0646\u064a\u0648|\u064a\u0648\u0644\u064a\u0648|\u0623\u063a\u0633\u0637\u0633|\u0633\u0628\u062a\u0645\u0628\u0631|\u0623\u0643\u062a\u0648\u0628\u0631|\u0646\u0648\u0641\u0645\u0628\u0631|\u062f\u064a\u0633\u0645\u0628\u0631)\s*,?\s*\d{4}\b
strict_pattern_4 ==
    Cat(<<At("boundary"), Rep(1, 2, Lit(ReDigit)), Rep(1, ReMany, Lit(ReSpace)), Grp(1, Alt(<<Str(<<"u064a",
      "u0646", "u0627", "u064a", "u0631">>), Str(<<"u0641", "u0628", "u0631", "u0627", "u064a", "u0631">>),
      Str(<<"u0645", "u0627", "u0631", "u0633">>), Str(<<"u0623", "u0628", "u0631", "u064a", "u0644">>),
      Str(<<"u0645", "u0627", "u064a", "u0648">>), Str(<<"u064a", "u0648", "u0646", "u064a", "u0648">>),
      Str(<<"u064a", "u0648", "u0644", "u064a", "u0648">>), Str(<<"u0623", "u063a", "u0633", "u0637",
      "u0633">>), Str(<<"u0633", "u0628", "u062a", "u0645", "u0628", "u0631">>), Str(<<"u0623", "u0643",
      "u062a", "u0648", "u0628", "u0631">>), Str(<<"u0646", "u0648", "u0641", "u0645", "u0628", "u0631">>),
      Str(<<"u062f", "u064a", "u0633", "u0645", "u0628", "u0631">>)>>)), Rep(0, ReMany, Lit(ReSpace)),
      Rep(0, 1, Lit({","})), Rep(0, ReMany, Lit(ReSpace)), Rep(4, 4, Lit(ReDigit)), At("boundary")>>)

\* \b\d{1,2}\s+(enero|febrero|marzo|abril|mayo|junio|julio|agosto|septiembre|octubre|noviembre|diciembre)\s+\d{4}\b
strict_pattern_5 ==
    Cat(<<At("boundary"), Rep(1, 2, Lit(ReDigit)), Rep(1, ReMany, Lit(ReSpace)), Grp(1, Alt(<<Str(<<"e",
      "n", "e", "r", "o">>), Str(<<"f", "e", "b", "r", "e", "r", "o">>), Str(<<"m", "a", "r", "z",
      "o">>), Str(<<"a", "b", "r", "i", "l">>), Str(<<"m", "a", "y", "o">>), Str(<<"j", "u", "n",
      "i", "o">>), Str(<<"j", "u", "l", "i", "o">>), Str(<<"a", "g", "o", "s", "t", "o">>), Str(<<"s",
      "e", "p", "t", "i", "e", "m", "b", "r", "e">>), Str(<<"o", "c", "t", "u", "b", "r", "e">>),
      Str(<<"n", "o", "v", "i", "e", "m", "b", "r", "e">>), Str(<<"d", "i", "c", "i", "e", "m", "b",
      "r", "e">>)>>)), Rep(1, ReMany, Lit(ReSpace)), Rep(4, 4, Lit(ReDigit)), At("boundary")>>)

\* \b([01]?\d|2[0-3]):[0-5]\d\b
strict_pattern_6 ==
    Cat(<<At("boundary"), Grp(1, Alt(<<Cat(<<Rep(0, 1, Lit({"0", "1"})), Lit(ReDigit)>>), Cat(<<Lit({"2"}),
      Lit({"0", "1", "2", "3"})>>)>>)), Lit({":"}), Lit({"0", "1", "2", "3", "4", "5"}), Lit(ReDigit),
      At("boundary")>>)

\* \b\d{1,2}:\d{2}\s*(am|pm|\u0635|\u0645)\b
strict_pattern_7 ==
    Cat(<<At("boundary"), Rep(1, 2, Lit(ReDigit)), Lit({":"}), Rep(2, 2, Lit(ReDigit)), Rep(0, ReMany,
      Lit(ReSpace)), Grp(1, Alt(<<Str(<<"a", "m">>), Str(<<"p", "m">>), Lit({"u0635"}), Lit({"u0645"})>>)),
      At("boundary")>>)

\* \b(monday|tuesday|wednesday|thursday|friday|saturday|sunday)\s+\d{1,2}\s+(january|february|march|april|may|june|july|august|september|october|november|december)\s+\d{4}\b
strict_pattern_8 ==
    Cat(<<At("boundary"), Grp(1, Alt(<<Str(<<"m", "o", "n", "d", "a", "y">>), Str(<<"t", "u", "e",
      "s", "d", "a", "y">>), Str(<<"w", "e", "d", "n", "e", "s", "d", "a", "y">>), Str(<<"t", "h",
      "u", "r", "s", "d", "a", "y">>), Str(<<"f", "r", "i", "d", "a", "y">>), Str(<<"s", "a", "t",
      "u", "r", "d", "a", "y">>), Str(<<"s", "u", "n", "d", "a", "y">>)>>)), Rep(1, ReMany, Lit(ReSpace)),
      Rep(1, 2, Lit(ReDigit)), Rep(1, ReMany, Lit(ReSpace)), Grp(2, Alt(<<Str(<<"j", "a", "n", "u",
      "a", "r", "y">>), Str(<<"f", "e", "b", "r", "u", "a", "r", "y">>), Str(<<"m", "a", "r", "c",
      "h">>), Str(<<"a", "p", "r", "i", "l">>), Str(<<"m", "a", "y">>), Str(<<"j", "u", "n", "e">>),
      Str(<<"j", "u", "l", "y">>), Str(<<"a", "u", "g", "u", "s", "t">>), Str(<<"s", "e", "p", "t",
      "e", "m", "b", "e", "r">>), Str(<<"o", "c", "t", "o", "b", "e", "r">>), Str(<<"n", "o", "v",
      "e", "m", "b", "e", "r">>), Str(<<"d", "e", "c", "e", "m", "b", "e", "r">>)>>)), Rep(1, ReMany,
      Lit(ReSpace)), Rep(4, 4, Lit(ReDigit)), At("boundary")>>)

\* \b(\u0627\u0644\u0627\u062b\u0646\u064a\u0646|\u0627\u0644\u062b\u0644\u0627\u062b\u0627\u0621|\u0627\u0644\u0623\u0631\u0628\u0639\u0627\u0621|\u0627\u0644\u062e\u0645\u064a\u0633|\u0627\u0644\u062c\u0645\u0639\u0629|\u0627\u0644\u0633\u0628\u062a|\u0627\u0644\u0623\u062d\u062f)\s*\d{1,2}\s*(\u064a\u0646\u0627\u064a\u0631|\u0641\u0628\u0631\u0627\u064a\u0631|\u0645\u0627\u0631\u0633|\u0623\u0628\u0631\u064a\u0644|\u0645\u0627\u064a\u0648|\u064a\u0648\u0646\u064a\u0648|\u064a\u0648\u0644\u064a\u0648|\u0623\u063a\u0633\u0637\u0633|\u0633\u0628\u062a\u0645\u0628\u0631|\u0623\u0643\u062a\u0648\u0628\u0631|\u0646\u0648\u0641\u0645\u0628\u0631|\u062f\u064a\u0633\u0645\u0628\u0631)\s*,?\s*\d{4}\b
strict_pattern_9 ==
    Cat(<<At("boundary"), Grp(1, Cat(<<Str(<<"u0627", "u0644">>), Alt(<<Str(<<"u0627", "u062b", "u0646",
      "u064a", "u0646">>), Str(<<"u062b", "u0644", "u0627", "u062b", "u0627", "u0621">>), Str(<<"u0623",
      "u0631", "u0628", "u0639", "u0627", "u0621">>), Str(<<"u062e", "u0645", "u064a", "u0633">>),
      Str(<<"u062c", "u0645", "u0639", "u0629">>), Str(<<"u0633", "u0628", "u062a">>), Str(<<"u0623",
      "u062d", "u062f">>)>>)>>)), Rep(0, ReMany, Lit(ReSpace)), Rep(1, 2, Lit(ReDigit)), Rep(0, ReMany,
      Lit(ReSpace)), Grp(2, Alt(<<Str(<<"u064a", "u0646", "u0627", "u064a", "u0631">>), Str(<<"u0641",
      "u0628", "u0631", "u0627", "u064a", "u0631">>), Str(<<"u0645", "u0627", "u0631", "u0633">>),
      Str(<<"u0623", "u0628", "u0631", "u064a", "u0644">>), Str(<<"u0645", "u0627", "u064a", "u0648">>),
      Str(<<"u064a", "u0648", "u0646", "u064a", "u0648">>), Str(<<"u064a", "u0648", "u0644", "u064a",
      "u0648">>), Str(<<"u0623", "u063a", "u0633", "u0637", "u0633">>), Str(<<"u0633", "u0628", "u062a",
      "u0645", "u0628", "u0631">>), Str(<<"u0623", "u0643", "u062a", "u0648", "u0628", "u0631">>),
      Str(<<"u0646", "u0648", "u0641", "u0645", "u0628", "u0631">>), Str(<<"u062f", "u064a", "u0633",
      "u0645", "u0628", "u0631">>)>>)), Rep(0, ReMany, Lit(ReSpace)), Rep(0, 1, Lit({","})), Rep(0,
      ReMany, Lit(ReSpace)), Rep(4, 4, Lit(ReDigit)), At("boundary")>>)

\* \b\d{4}-\d{2}-\d{2}T\d{2}:\d{2}:\d{2}
strict_pattern_10 ==
    Cat(<<At("boundary"), Rep(4, 4, Lit(ReDigit)), Lit({"-"}), Rep(2, 2, Lit(ReDigit)), Lit({"-"}),
      Rep(2, 2, Lit(ReDigit)), Lit({"T"}), Rep(2, 2, Lit(ReDigit)), Lit({":"}), Rep(2, 2, Lit(ReDigit)),
      Lit({":"}), Rep(2, 2, Lit(ReDigit))>>)

\* \b(published|updated|posted|created|\u062a\u0627\u0631\u064a\u062e|\u0646\u0634\u0631|\u0645\u062d\u062f\u062b)\s*:?\s*\d
strict_pattern_11 ==
    Cat(<<At("boundary"), Grp(1, Alt(<<Str(<<"p", "u", "b", "l", "i", "s", "h", "e", "d">>), Str(<<"u",
      "p", "d", "a", "t", "e", "d">>), Str(<<"p", "o", "s", "t", "e", "d">>), Str(<<"c", "r", "e",
      "a", "t", "e", "d">>), Str(<<"u062a", "u0627", "u0631", "u064a", "u062e">>), Str(<<"u0646",
      "u0634", "u0631">>), Str(<<"u0645", "u062d", "u062f", "u062b">>)>>)), Rep(0, ReMany, Lit(ReSpace)),
      Rep(0, 1, Lit({":"})), Rep(0, ReMany, Lit(ReSpace)), Lit(ReDigit)>>)

strict_patterns ==
    <<strict_pattern_1, strict_pattern_2, strict_pattern_3, strict_pattern_4, strict_pattern_5, strict_pattern_6, strict_pattern_7,
      strict_pattern_8, strict_pattern_9, strict_pattern_10, strict_pattern_11>>

\* \b(19|20)\d{2}\b
year_pattern ==
    Cat(<<At("boundary"), Grp(1, Alt(<<Str(<<"1", "9">>), Str(<<"2", "0">>)>>)), Rep(2, 2, Lit(ReDigit)),
      At("boundary")>>)

date_words ==
    <<<<"j", "a", "n", "u", "a", "r", "y">>,
     <<"f", "e", "b", "r", "u", "a", "r", "y">>,
     <<"m", "a", "r", "c", "h">>,
     <<"a", "p", "r", "i", "l">>,
     <<"m", "a", "y">>,
     <<"j", "u", "n", "e">>,
     <<"j", "u", "l", "y">>,
     <<"a", "u", "g", "u", "s", "t">>,
     <<"s", "e", "p", "t", "e", "m", "b", "e", "r">>,
     <<"o", "c", "t", "o", "b", "e", "r">>,
     <<"n", "o", "v", "e", "m", "b", "e", "r">>,
     <<"d", "e", "c", "e", "m", "b", "e", "r">>,
     <<"m", "o", "n", "d", "a", "y">>,
     <<"t", "u", "e", "s", "d", "a", "y">>,
     <<"w", "e", "d", "n", "e", "s", "d", "a", "y">>,
     <<"t", "h", "u", "r", "s", "d", "a", "y">>,
     <<"f", "r", "i", "d", "a", "y">>,
     <<"s", "a", "t", "u", "r", "d", "a", "y">>,
     <<"s", "u", "n", "d", "a", "y">>,
     <<"u064a", "u0646", "u0627", "u064a", "u0631">>,
     <<"u0641", "u0628", "u0631", "u0627", "u064a", "u0631">>,
     <<"u0645", "u0627", "u0631", "u0633">>,
     <<"u0623", "u0628", "u0631", "u064a", "u0644">>,
     <<"u0645", "u0627", "u064a", "u0648">>,
     <<"u064a", "u0648", "u0646", "u064a", "u0648">>,
     <<"u064a", "u0648", "u0644", "u064a", "u0648">>,
     <<"u0623", "u063a", "u0633", "u0637", "u0633">>,
     <<"u0633", "u0628", "u062a", "u0645", "u0628", "u0631">>,
     <<"u0623", "u0643", "u062a", "u0648", "u0628", "u0631">>,
     <<"u0646", "u0648", "u0641", "u0645", "u0628", "u0631">>,
     <<"u062f", "u064a", "u0633", "u0645", "u0628", "u0631">>,
     <<"u0627", "u0644", "u0627", "u062b", "u0646", "u064a", "u0646">>,
     <<"u0627", "u0644", "u062b", "u0644", "u0627", "u062b", "u0627", "u0621">>,
     <<"u0627", "u0644", "u0623", "u0631", "u0628", "u0639", "u0627", "u0621">>,
     <<"u0627", "u0644", "u062e", "u0645", "u064a", "u0633">>,
     <<"u0627", "u0644", "u062c", "u0645", "u0639", "u0629">>,
     <<"u0627", "u0644", "u0633", "u0628", "u062a">>,
     <<"u0627", "u0644", "u0623", "u062d", "u062f">>>>

\* \b(19|20)\d{2}[-/.](0[1-9]|1[0-2])[-/.](0[1-9]|[12][0-9]|3[01])\b
numeric_date_pattern ==
    Cat(<<At("boundary"), Grp(1, Alt(<<Str(<<"1", "9">>), Str(<<"2", "0">>)>>)), Rep(2, 2, Lit(ReDigit)),
      Lit({"-", ".", "/"}), Grp(2, Alt(<<Cat(<<Lit({"0"}), Lit({"1", "2", "3", "4", "5", "6", "7",
      "8", "9"})>>), Cat(<<Lit({"1"}), Lit({"0", "1", "2"})>>)>>)), Lit({"-", ".", "/"}), Grp(3, Alt(<<Cat(<<Lit({"0"}),
      Lit({"1", "2", "3", "4", "5", "6", "7", "8", "9"})>>), Cat(<<Lit({"1", "2"}), Lit({"0", "1",
      "2", "3", "4", "5", "6", "7", "8", "9"})>>), Cat(<<Lit({"3"}), Lit({"0", "1"})>>)>>)), At("boundary")>>)

\* \b\d{4}-\d{1,2}-\d{1,2}(?:\s+\d{1,2}:\d{1,2}(?::\d{1,2})?)?\b
embedded_iso_pattern ==
    Cat(<<At("boundary"), Rep(4, 4, Lit(ReDigit)), Lit({"-"}), Rep(1, 2, Lit(ReDigit)), Lit({"-"}),
      Rep(1, 2, Lit(ReDigit)), Rep(0, 1, Cat(<<Rep(1, ReMany, Lit(ReSpace)), Rep(1, 2, Lit(ReDigit)),
      Lit({":"}), Rep(1, 2, Lit(ReDigit)), Rep(0, 1, Cat(<<Lit({":"}), Rep(1, 2, Lit(ReDigit))>>))>>)),
      At("boundary")>>)

date_attribute_keywords ==
    <<<<"d", "a", "t", "e">>,
     <<"t", "i", "m", "e">>,
     <<"p", "u", "b", "l", "i", "s", "h">>,
     <<"c", "r", "e", "a", "t", "e", "d">>,
     <<"u", "p", "d", "a", "t", "e", "d">>,
     <<"d", "a", "t", "a", "-", "p", "u", "b", "l", "i", "s", "h", "d", "a", "t", "e">>>>

\* the PUBLICATION_KEYWORDS get_publishing_date defines for itself
\* the module-level table PUBLICATION_KEYWORDS (English, Arabic, Spanish, French,
\* German, ... entries)
PUBLICATION_KEYWORDS ==
    <<<<"p","u","b","l","i","s","h","e","d">>,
     <<"p","u","b","l","i","c","a","t","i","o","n">>,
     <<"p","o","s","t","e","d"," ","o","n">>,
     <<"u","p","d","a","t","e","d">>,
     <<"l","a","s","t"," ","u","p","d","a","t","e","d">>,
     <<"a","u","t","h","o","r","e","d">>,
     <<"w","r","i","t","t","e","n"," ","b","y">>,
     <<"o","n",":">>,
     <<"a","t",":">>,
     <<"d","a","t","e",":">>,
     <<"b","y",":">>,
     <<"u0646","u0634","u0631"," ","u0641","u064a">>,
     <<"u062a","u0627","u0631","u064a","u062e"," ","u0627","u0644","u0646","u0634","u0631">>,
     <<"u062a","u062d","u062f","u064a","u062b">>,
     <<"u0645","u0634","u0627","u0631","u0643","u0629">>,
     <<"u0628","u062a","u0627","u0631","u064a","u062e">>,
     <<"p","u","b","l","i","c","a","d","o">>,
     <<"a","c","t","u","a","l","i","z","a","d","o">>,
     <<"f","e","c","h","a">>,
     <<"p","u","b","l","i","u00e9"," ","l","e">>,
     <<"m","i","s","e"," ","u00e0"," ","j","o","u","r">>,
     <<"d","a","t","e"," ","d","e"," ","p","u","b","l","i","c","a","t","i","o","n">>,
     <<"v","e","r","u00f6","f","f","e","n","t","l","i","c","h","t">>,
     <<"a","k","t","u","a","l","i","s","i","e","r","t">>,
     <<"d","a","t","u","m">>,
     <<"p","u","b","l","i","c","a","d","o"," ","e","m">>,
     <<"a","t","u","a","l","i","z","a","d","o"," ","e","m">>,
     <<"p","u","b","b","l","i","c","a","t","o"," ","i","l">>,
     <<"a","g","g","i","o","r","n","a","t","o"," ","i","l">>,
     <<"u043e","u043f","u0443","u0431","u043b","u0438","u043a","u043e","u0432","u0430","u043d","u043e">>,
     <<"u043e","u0431","u043d","u043e","u0432","u043b","u0435","u043d","u043e">>,
     <<"u0434","u0430","u0442","u0430">>,
     <<"y","a","y","u0131","n","l","a","n","m","a">>,
     <<"g","u00fc","n","c","e","l","l","e","n","m","e">>,
     <<"t","a","r","i","h">>,
     <<"g","e","p","u","b","l","i","c","e","e","r","d"," ","o","p">>,
     <<"b","i","j","g","e","w","e","r","k","t"," ","o","p">>,
     <<"p","u","b","l","i","c","e","r","a","d">>,
     <<"u","p","p","d","a","t","e","r","a","d">>,
     <<"p","u","b","l","i","s","e","r","t">>,
     <<"o","p","p","d","a","t","e","r","t">>,
     <<"u","d","g","i","v","e","t">>,
     <<"o","p","d","a","t","e","r","e","t">>,
     <<"j","u","l","k","a","i","s","t","u">>,
     <<"p","u00e4","i","v","i","t","e","t","t","y">>,
     <<"u516c","u958b","u65e5">>,
     <<"u66f4","u65b0","u65e5">>,
     <<"u53d1","u5e03","u65e5","u671f">>,
     <<"u66f4","u65b0","u65e5","u671f">>,
     <<"u53d1","u8868","u4e8e">>>>

\* the list get_publishing_date binds to the same name before scoring
LOCAL_PUBLICATION_KEYWORDS ==
    <<<<"p", "u", "b", "l", "i", "s", "h", "e", "d">>,
     <<"p", "o", "s", "t", "e", "d">>,
     <<"c", "r", "e", "a", "t", "e", "d">>,
     <<"d", "a", "t", "e">>,
     <<"t", "i", "m", "e">>,
     <<"u", "p", "d", "a", "t", "e", "d">>,
     <<"m", "o", "d", "i", "f", "i", "e", "d">>>>

date_class_keywords ==
    <<<<"p", "u", "b", "l", "i", "s", "h">>,
     <<"t", "i", "m", "e", "s", "t", "a", "m", "p">>,
     <<"d", "a", "t", "e">>,
     <<"e", "n", "t", "r", "y", "-", "d", "a", "t", "e">>,
     <<"p", "o", "s", "t", "-", "d", "a", "t", "e">>,
     <<"t", "i", "m", "e">>>>

date_id_keywords ==
    <<<<"p", "u", "b", "l", "i", "s", "h">>,
     <<"d", "a", "t", "e">>,
     <<"t", "i", "m", "e">>,
     <<"c", "r", "e", "a", "t", "e", "d">>,
     <<"u", "p", "d", "a", "t", "e", "d">>>>

\* (?<=\W)([\./\-_]{0,1}(19|20)\d{2})[\./\-_]{0,1}(([0-3]{0,1}[0-9][\./\-_])|(\w{3,5}[\./\-_]))([0-3]{0,1}[0-9][\./\-]{0,1})?
STRICT_DATE_REGEX ==
    Cat(<<Behind(Not(ReWord)), Grp(1, Cat(<<Rep(0, 1, Lit({"-", ".", "/", "_"})), Grp(2, Alt(<<Str(<<"1",
      "9">>), Str(<<"2", "0">>)>>)), Rep(2, 2, Lit(ReDigit))>>)), Rep(0, 1, Lit({"-", ".", "/", "_"})),
      Grp(3, Alt(<<Grp(4, Cat(<<Rep(0, 1, Lit({"0", "1", "2", "3"})), Lit({"0", "1", "2", "3", "4",
      "5", "6", "7", "8", "9"}), Lit({"-", ".", "/", "_"})>>)), Grp(5, Cat(<<Rep(3, 5, Lit(ReWord)),
      Lit({"-", ".", "/", "_"})>>))>>)), Rep(0, 1, Grp(6, Cat(<<Rep(0, 1, Lit({"0", "1", "2", "3"})),
      Lit({"0", "1", "2", "3", "4", "5", "6", "7", "8", "9"}), Rep(0, 1, Lit({"-", ".", "/"}))>>)))>>)

PUBLISH_DATE_TAGS ==
    <<[attribute |-> "property", value |-> <<"a", "r", "t", "i", "c", "l", "e", ":", "p", "u", "b", "l", "i", "s", "h", "e", "d", "_", "t", "i", "m", "e">>],
      [attribute |-> "itemprop", value |-> <<"d", "a", "t", "e", "P", "u", "b", "l", "i", "s", "h", "e", "d">>],
      [attribute |-> "name", value |-> <<"p", "u", "b", "d", "a", "t", "e">>],
      [attribute |-> "pubdate", value |-> <<"p", "u", "b", "d", "a", "t", "e">>],
      [attribute |-> "name", value |-> <<"p", "u", "b", "l", "i", "s", "h", "e", "d", "_", "t", "i", "m", "e">>],
      [attribute |-> "name", value |-> <<"p", "u", "b", "l", "i", "s", "h", "_", "d", "a", "t", "e">>],
      [attribute |-> "property", value |-> <<"o", "g", ":", "p", "u", "b", "l", "i", "s", "h", "e", "d", "_", "t", "i", "m", "e">>],
      [attribute |-> "name", value |-> <<"d", "a", "t", "e">>],
      [attribute |-> "name", value |-> <<"D", "a", "t", "e">>],
      [attribute |-> "name", value |-> <<"D", "C", ".", "d", "a", "t", "e", ".", "i", "s", "s", "u", "e", "d">>],
      [attribute |-> "name", value |-> <<"d", "c", "t", "e", "r", "m", "s", ".", "c", "r", "e", "a", "t", "e", "d">>],
      [attribute |-> "name", value |-> <<"O", "r", "i", "g", "i", "n", "a", "l", "P", "u", "b", "l", "i", "c", "a", "t", "i", "o", "n", "D", "a", "t", "e">>],
      [attribute |-> "name", value |-> <<"s", "a", "i", "l", "t", "h", "r", "u", ".", "d", "a", "t", "e">>],
      [attribute |-> "name", value |-> <<"a", "r", "t", "i", "c", "l", "e", "_", "d", "a", "t", "e", "_", "o", "r", "i", "g", "i", "n", "a", "l">>],
      [attribute |-> "name", value |-> <<"p", "u", "b", "l", "i", "c", "a", "t", "i", "o", "n", "_", "d", "a", "t", "e">>],
      [attribute |-> "name", value |-> <<"P", "u", "b", "l", "i", "s", "h", "D", "a", "t", "e">>],
      [attribute |-> "name", value |-> <<"d", "a", "t", "e", "P", "u", "b", "l", "i", "s", "h", "e", "d">>],
      [attribute |-> "property", value |-> <<"r", "n", "e", "w", "s", ":", "d", "a", "t", "e", "P", "u", "b", "l", "i", "s", "h", "e", "d">>],
      [attribute |-> "name", value |-> <<"d", "a", "t", "e", "P", "u", "b", "l", "i", "s", "h", "e", "d">>],
      [attribute |-> "span", value |-> <<"d", "a", "t", "a", "-", "p", "u", "b", "l", "i", "s", "h", "d", "a", "t", "e">>]>>

(***************************************************************************)
(* Publication date finder: the helpers nested in get_publishing_date      *)
(***************************************************************************)
\* re.sub(r'\[\d+\]', '', source_xpath): every positional index removed
simplified_xpath_of(source_xpath) ==
    [k \in 1..Len(source_xpath) |-> [tag |-> source_xpath[k].tag, idx |-> 0]]

\* get_publishing_date.find_corresponding_node: the exact path in the target
\* document, then the path without indices
find_corresponding_node(source_xpath, target_doc) ==
    IF source_xpath = <<>> THEN None
    ELSE LET corresponding_nodes == xpath(target_doc, source_xpath)
             simplified_xpath == simplified_xpath_of(source_xpath)
             flex_nodes == xpath(target_doc, simplified_xpath)
         IN  IF corresponding_nodes # <<>> THEN corresponding_nodes[1]
             ELSE IF simplified_xpath # source_xpath /\ flex_nodes # <<>> THEN flex_nodes[1]
             ELSE None

\* a distance that forgets the common prefix of the two paths
calculate_dom_distance_from_root(d, node1, node2) ==
    IF node1 = None \/ node2 = None THEN Infinity
    ELSE Len(getpath(d, node1)) + Len(getpath(d, node2))

\* get_publishing_date.calculate_dom_distance: the empty segments of
\* path.split('/') are dropped
calculate_dom_distance(d, node1, node2) ==
    IF node1 = None \/ node2 = None THEN Infinity
    ELSE LET parts1 == getpath(d, node1)
             parts2 == getpath(d, node2)
             common_length == CommonLength(parts1, parts2)
         IN  (Len(parts1) - common_length) + (Len(parts2) - common_length)

\* int(100 * (1 - distance / 10)) for distance 0..9, in binary floating point
\* (1 - 8/10 and 1 - 9/10 fall just below 0.2 and 0.1)
proximity_scores == <<100, 90, 80, 70, 60, 50, 40, 30, 19, 9>>

\* int(proximity_score * 0.3) and int(proximity_score * 0.7) for the scores
\* above, by distance (90 * 0.7 falls just below 63)
text_proximity_scores == <<30, 27, 24, 21, 18, 15, 12, 9, 5, 2>>

embedded_proximity_scores == <<70, 62, 56, 49, 42, 35, 28, 21, 13, 6>>

max_distance == 10

\* calculate_proximity_score, with the weight applied by the caller:
\* the table gives the score at each distance below max_distance
weighted_proximity_score(d, candidate_node, reference_node, scores) ==
    IF reference_node = None THEN 0
    ELSE LET distance == calculate_dom_distance(d, candidate_node, reference_node)
         IN  IF distance >= max_distance THEN 0 ELSE scores[distance + 1]

\* a score without the cut at max_distance
calculate_proximity_score_uncut(d, candidate_node, reference_node) ==
    IF reference_node = None THEN 0
    ELSE 100 - 10 * calculate_dom_distance(d, candidate_node, reference_node)

calculate_proximity_score(d, candidate_node, reference_node) ==
    weighted_proximity_score(d, candidate_node, reference_node, proximity_scores)

\* any(re.search(pattern, s) for pattern in patterns)
search_any(patterns, s) ==
    \E k \in 1..Len(patterns) : Matched(re_search(patterns[k], s))

\* any(keyword in s for keyword in keywords)
contains_any(s, keywords) == \E k \in 1..Len(keywords) : Contains(s, keywords[k])

\* get_publishing_date.is_likely_date_text
is_likely_date_text(t) ==
    IF Len(t) < 3 THEN FALSE
    ELSE IF Len(t) > 150 THEN FALSE
    ELSE IF search_any(strict_patterns, Strip(lower(t))) THEN TRUE
    ELSE IF Len(t) <= 50
         THEN IF ~Matched(re_search(year_pattern, t)) THEN FALSE
              ELSE contains_any(Strip(lower(t)), date_words)
    ELSE FALSE

\* parser.getElementsByTag(doc, attr=..., value=...): the elements of any tag
\* that carry the attribute with the value, in document order
getElementsByAttr(d, attr, value) ==
    SelectSeq(DocumentOrder(d), LAMBDA n : getAttribute(d, n, attr) = value)

(***************************************************************************)
(* Publication date finder: the heuristic candidates                       *)
(***************************************************************************)
date_candidate(score, t, tag) == [score |-> score, text |-> t, tag |-> tag]

\* has_date_attributes
has_date_attributes(tag_class, tag_id) ==
    contains_any(lower(tag_class \o <<" ">> \o tag_id), date_attribute_keywords)

\* is_date_like
is_date_like(tr, tag_text) ==
    \/ contains_month(tr, tag_text)
    \/ Matched(re_search(numeric_date_pattern, tag_text))
    \/ is_likely_date_text(tag_text)

\* the walk up the parents of tag: some ancestor is a penalty node
in_penalty_zone(d, tag, penalty_nodes) ==
    \E a \in Ancestors(d, tag) : a \in penalty_nodes

\* the virtual candidates of a long text: one per embedded ISO date, scored
\* 80 plus the reduced proximity
embedded_candidates(d, tag, iso_matches, mapped_top_node) ==
    LET proximity_score ==
            weighted_proximity_score(d, tag, mapped_top_node, embedded_proximity_scores)
        score == (IF mapped_top_node # None /\ proximity_score > 0
                  THEN proximity_score ELSE 0) + 80
    IN  [k \in 1..Len(iso_matches) |-> date_candidate(score, iso_matches[k], tag)]

\* Keyword scoring
keyword_score(tag_text) ==
    IF contains_any(lower(tag_text), LOCAL_PUBLICATION_KEYWORDS) THEN 100 ELSE 0

\* the score with a penalty-zone deduction of 60
date_score_penalty_60(d, tag, tag_text, tag_class, tag_id, date_attributes, mapped_top_node, penalty_nodes) ==
    LET proximity_score ==
            weighted_proximity_score(d, tag, mapped_top_node,
                IF date_attributes THEN proximity_scores ELSE text_proximity_scores)
    IN    (IF date_attributes THEN 50 ELSE 0)
        + (IF Len(tag_text) <= 30 THEN 40 ELSE IF Len(tag_text) <= 50 THEN 20 ELSE 0)
        + (IF mapped_top_node # None /\ proximity_score > 0 THEN proximity_score ELSE 0)
        + keyword_score(tag_text)
        + (IF contains_any(lower(tag_class), date_class_keywords) THEN 80 ELSE 0)
        + (IF contains_any(lower(tag_id), date_id_keywords) THEN 120 ELSE 0)
        + (IF d[tag].tag = "time" THEN 60 ELSE 0)
        - (IF in_penalty_zone(d, tag, penalty_nodes) THEN 60 ELSE 0)

\* the score of an ordinary candidate
date_score(d, tag, tag_text, tag_class, tag_id, date_attributes, mapped_top_node, penalty_nodes) ==
    LET proximity_score ==
            weighted_proximity_score(d, tag, mapped_top_node,
                IF date_attributes THEN proximity_scores ELSE text_proximity_scores)
    IN    (IF date_attributes THEN 50 ELSE 0)
        + (IF Len(tag_text) <= 30 THEN 40 ELSE IF Len(tag_text) <= 50 THEN 20 ELSE 0)
        + (IF mapped_top_node # None /\ proximity_score > 0 THEN proximity_score ELSE 0)
        + keyword_score(tag_text)
        + (IF contains_any(lower(tag_class), date_class_keywords) THEN 80 ELSE 0)
        + (IF contains_any(lower(tag_id), date_id_keywords) THEN 120 ELSE 0)
        + (IF d[tag].tag = "time" THEN 60 ELSE 0)
        - (IF in_penalty_zone(d, tag, penalty_nodes) THEN 20 ELSE 0)

\* one pass of the loop over all_tags: the candidates the element adds
candidates_of_text(d, tag, tag_text, tag_class, tag_id, date_attributes, mapped_top_node, penalty_nodes, tr) ==
    IF tag_text = <<>> \/ Len(tag_text) < 6 \/ Len(tag_text) > 200 THEN <<>>
    ELSE IF ~(is_date_like(tr, tag_text) \/ date_attributes) THEN <<>>
    ELSE IF Len(tag_text) > 100 /\ ~date_attributes
         THEN embedded_candidates(d, tag, re_findall(embedded_iso_pattern, tag_text),
                                  mapped_top_node)
    ELSE <<date_candidate(date_score(d, tag, tag_text, tag_class, tag_id, date_attributes,
                                     mapped_top_node, penalty_nodes),
                          tag_text, tag)>>

candidates_of_attributes(d, tag, tag_text, tag_class, tag_id, mapped_top_node, penalty_nodes, tr) ==
    candidates_of_text(d, tag, tag_text, tag_class, tag_id,
                       has_date_attributes(tag_class, tag_id),
                       mapped_top_node, penalty_nodes, tr)

candidates_of(d, tag, mapped_top_node, penalty_nodes, tr) ==
    candidates_of_attributes(d, tag, Strip(getText(d, tag)),
                             getAttribute(d, tag, "class"), getAttribute(d, tag, "id"),
                             mapped_top_node, penalty_nodes, tr)

\* the loop over all_tags, in document order
date_candidates(d, all_tags, mapped_top_node, penalty_nodes, tr) ==
    Concat([k \in 1..Len(all_tags) |->
               candidates_of(d, all_tags[k], mapped_top_node, penalty_nodes, tr)])

\* the loop over the sorted candidates: the first one that validates as a
\* heuristic date; a candidate scored below -30 is skipped
try_candidate(candidate, now) ==
    IF candidate.score < -30 THEN NoneDate
    ELSE parse_and_validate(candidate.text, TRUE, FALSE, now)

\* the loop over candidates[lo..hi], in order (the range is halved, which
\* keeps the evaluation shallow)
RECURSIVE try_candidates_in(_, _, _, _)
try_candidates_else(datetime_obj, candidates, now, lo, hi) ==
    IF datetime_obj # NoneDate THEN datetime_obj
    ELSE try_candidates_in(candidates, now, lo, hi)

try_candidates_in(candidates, now, lo, hi) ==
    IF lo > hi THEN NoneDate
    ELSE IF lo = hi THEN try_candidate(candidates[lo], now)
    ELSE try_candidates_else(try_candidates_in(candidates, now, lo, (lo + hi) \div 2),
                             candidates, now, ((lo + hi) \div 2) + 1, hi)

try_candidates(candidates, now) == try_candidates_in(candidates, now, 1, Len(candidates))

\* the heuristic tier: candidates collected, sorted by descending score, tried
heuristic_candidates(d, top, tr) ==
    date_candidates(d, getElementsByTags(d, {"p", "span", "div", "td", "time"}),
                    find_corresponding_node(top, d),
                    Range(getElementsByTags(d, {"nav", "aside", "sidebar", "footer"})),
                    tr)

heuristic_tier(d, top, now, tr) == try_candidates(SortDesc(heuristic_candidates(d, top, tr)), now)

(***************************************************************************)
(* Publication date finder: the tiers of get_publishing_date               *)
(***************************************************************************)
\* tier 1: the text STRICT_DATE_REGEX finds in the URL, parsed as a URL date
url_tier_match(u, date_match, now) ==
    IF Matched(date_match) THEN parse_and_validate(group0(u, date_match), FALSE, TRUE, now)
    ELSE NoneDate

url_tier(u, now) == url_tier_match(u, re_search(STRICT_DATE_REGEX, u), now)

\* content_key
content_key(tag_info) ==
    IF tag_info.value = <<"d", "a", "t", "e", "P", "u", "b", "l", "i", "s", "h", "e", "d">>
    THEN "datetime" ELSE "content"

\* one selector of PUBLISH_DATE_TAGS: the attribute of the first element it
\* selects, parsed; the other elements it selects are not read
meta_date_of(d, meta_tags, tag_info, now) ==
    IF meta_tags # <<>>
    THEN parse_and_validate(getAttribute(d, meta_tags[1], content_key(tag_info)),
                            FALSE, FALSE, now)
    ELSE NoneDate

meta_date(d, tag_info, now) ==
    meta_date_of(d, getElementsByAttr(d, tag_info.attribute, tag_info.value), tag_info, now)

\* the loop over PUBLISH_DATE_TAGS: the first selector of tags[lo..hi] whose
\* date validates (the range is halved, which keeps the evaluation shallow)
RECURSIVE meta_tier_in(_, _, _, _, _)
meta_tier_else(dt, d, tags, now, lo, hi) ==
    IF dt # NoneDate THEN dt ELSE meta_tier_in(d, tags, now, lo, hi)

meta_tier_in(d, tags, now, lo, hi) ==
    IF lo > hi THEN NoneDate
    ELSE IF lo = hi THEN meta_date(d, tags[lo], now)
    ELSE meta_tier_else(meta_tier_in(d, tags, now, lo, (lo + hi) \div 2),
                        d, tags, now, ((lo + hi) \div 2) + 1, hi)

meta_tier(d, tags, now) == meta_tier_in(d, tags, now, 1, Len(tags))

\* the loop over the <time> elements: the first datetime attribute of
\* time_tags[lo..hi] that validates
RECURSIVE time_tier_in(_, _, _, _, _)
time_tier_else(dt, d, time_tags, now, lo, hi) ==
    IF dt # NoneDate THEN dt ELSE time_tier_in(d, time_tags, now, lo, hi)

time_tier_in(d, time_tags, now, lo, hi) ==
    IF lo > hi THEN NoneDate
    ELSE IF lo = hi
         THEN parse_and_validate(getAttribute(d, time_tags[lo], "datetime"), FALSE, FALSE, now)
    ELSE time_tier_else(time_tier_in(d, time_tags, now, lo, (lo + hi) \div 2),
                        d, time_tags, now, ((lo + hi) \div 2) + 1, hi)

time_tier(d, time_tags, now) == time_tier_in(d, time_tags, now, 1, Len(time_tags))

\* what get_publishing_date returns, the tier that returned it and the tiers
\* that were run
date_result(dt, tier_name, tiers_run) ==
    [date |-> dt, tier |-> tier_name, consulted |-> tiers_run]

after_heuristic_tier(dt) ==
    date_result(dt, IF dt # NoneDate THEN "heuristic" ELSE "none",
                <<"url", "meta", "time", "heuristic">>)

after_time_tier(dt, d, top, now, tr) ==
    IF dt # NoneDate THEN date_result(dt, "time", <<"url", "meta", "time">>)
    ELSE after_heuristic_tier(heuristic_tier(d, top, now, tr))

after_meta_tier(dt, d, top, now, tr) ==
    IF dt # NoneDate THEN date_result(dt, "meta", <<"url", "meta">>)
    ELSE after_time_tier(time_tier(d, getElementsByTags(d, {"time"}), now), d, top, now, tr)

after_url_tier(dt, d, top, now, tr) ==
    IF dt # NoneDate THEN date_result(dt, "url", <<"url">>)
    ELSE after_meta_tier(meta_tier(d, PUBLISH_DATE_TAGS, now), d, top, now, tr)

\* a variant that reads the metadata before the URL
get_publishing_date_meta_first(u, d, top, now, tr) ==
    IF meta_tier(d, PUBLISH_DATE_TAGS, now) # NoneDate
    THEN date_result(meta_tier(d, PUBLISH_DATE_TAGS, now), "meta", <<"meta">>)
    ELSE after_url_tier(url_tier(u, now), d, top, now, tr)

get_publishing_date(u, d, top, now, tr) ==
    after_url_tier(url_tier(u, now), d, top, now, tr)

(***************************************************************************)
(* Inputs of the publication date finder                                   *)
(***************************************************************************)
\* "http://a.co/story"
U_plain ==
    << "h","t","t","p",":","/","/","a",".","c","o","/","s","t","o","r","y" >>

\* "http://a.co/2024/03/15/story"
U_dated ==
    << "h","t","t","p",":","/","/","a",".","c","o","/","2","0","2","4","/","0","3","/","1","5","/","s","t",
       "o","r","y" >>

\* "http://a.co/2099/01/01/story"
U_future ==
    << "h","t","t","p",":","/","/","a",".","c","o","/","2","0","9","9","/","0","1","/","0","1","/","s","t",
       "o","r","y" >>

\* "2024-03-20T10:00:00"
D_iso ==
    << "2","0","2","4","-","0","3","-","2","0","T","1","0",":","0","0",":","0","0" >>

\* "soon"
D_unparsable ==
    << "s","o","o","n" >>

\* "2024-03-21"
D_day ==
    << "2","0","2","4","-","0","3","-","2","1" >>

\* "2024-03-22"
D_time ==
    << "2","0","2","4","-","0","3","-","2","2" >>

\* "Published: March 5, 2024"
D_published ==
    << "P","u","b","l","i","s","h","e","d",":"," ","M","a","r","c","h"," ","5",","," ","2","0","2","4" >>

\* "2024-06-18"
D_near ==
    << "2","0","2","4","-","0","6","-","1","8" >>

\* "March 7, 2024"
D_para ==
    << "M","a","r","c","h"," ","7",","," ","2","0","2","4" >>

\* "date"
S_date ==
    << "d","a","t","e" >>

\* "article:published_time"
S_published_time ==
    << "a","r","t","i","c","l","e",":","p","u","b","l","i","s","h","e","d","_","t","i","m","e" >>

\* "pubdate"
S_pubdate ==
    << "p","u","b","d","a","t","e" >>

\* "/2099/01/01/"
D_url_future ==
    << "/","2","0","9","9","/","0","1","/","0","1","/" >>

\* "2024-06-25"
D_week ==
    << "2","0","2","4","-","0","6","-","2","5" >>

\* "2024-06-17"
D_soon ==
    << "2","0","2","4","-","0","6","-","1","7" >>

\* "2024-06-16T11:00:00"
D_tomorrow ==
    << "2","0","2","4","-","0","6","-","1","6","T","1","1",":","0","0",":","0","0" >>

\* "15/03/2024"
D_slash ==
    << "1","5","/","0","3","/","2","0","2","4" >>

\* "June 20, 2024"
D_june ==
    << "J","u","n","e"," ","2","0",","," ","2","0","2","4" >>

\* "\u0646\u064f\u0634\u0631 \u0641\u064a 15 \u0645\u0627\u0631\u0633 2024"
D_arabic_published ==
    << "u0646","u064f","u0634","u0631"," ","u0641","u064a"," ","1","5"," ","u0645","u0627","u0631","u0633",
       " ","2","0","2","4" >>

\* "15 \u0645\u0627\u0631\u0633 2024"
D_arabic_date ==
    << "1","5"," ","u0645","u0627","u0631","u0633"," ","2","0","2","4" >>

\* "15/3/2024"
D_slash_short ==
    << "1","5","/","3","/","2","0","2","4" >>

\* "20/3/2024"
D_slash_twenty ==
    << "2","0","/","3","/","2","0","2","4" >>

\* "2024-03-20T10:00:00Z"
D_iso_utc ==
    << "2","0","2","4","-","0","3","-","2","0","T","1","0",":","0","0",":","0","0","Z" >>

\* "/2024/03/15/"
D_url_ymd ==
    << "/","2","0","2","4","/","0","3","/","1","5","/" >>

\* "03/04/2024"
D_url_both ==
    << "0","3","/","0","4","/","2","0","2","4" >>

\* "03/15/2024"
D_url_mdy ==
    << "0","3","/","1","5","/","2","0","2","4" >>

\* "31/02/2024"
D_url_invalid ==
    << "3","1","/","0","2","/","2","0","2","4" >>

\* "Market news today"
D_market ==
    << "M","a","r","k","e","t"," ","n","e","w","s"," ","t","o","d","a","y" >>

\* "Fecha: 2024-03-05"
D_fecha ==
    << "F","e","c","h","a",":"," ","2","0","2","4","-","0","3","-","0","5" >>

\* "All rights reserved since 2020-03-01 by the example press"
D_long_footer ==
    << "A","l","l"," ","r","i","g","h","t","s"," ","r","e","s","e","r","v","e","d"," ","s","i","n","c","e",
       " ","2","0","2","0","-","0","3","-","0","1"," ","b","y"," ","t","h","e"," ","e","x","a","m","p","l",
       "e"," ","p","r","e","s","s" >>

\* "The committee met for several hours and agreed that the report of 2024-03-05 would be sent to all members soon"
D_embedded ==
    << "T","h","e"," ","c","o","m","m","i","t","t","e","e"," ","m","e","t"," ","f","o","r"," ","s","e","v",
       "e","r","a","l"," ","h","o","u","r","s"," ","a","n","d"," ","a","g","r","e","e","d"," ","t","h","a",
       "t"," ","t","h","e"," ","r","e","p","o","r","t"," ","o","f"," ","2","0","2","4","-","0","3","-","0",
       "5"," ","w","o","u","l","d"," ","b","e"," ","s","e","n","t"," ","t","o"," ","a","l","l"," ","m","e",
       "m","b","e","r","s"," ","s","o","o","n" >>

MaxDateElements == 2   \* number of date-bearing elements added to a document

\* datetime.now() at the time of the call
DateNows == {datetime(2024, 6, 15, 12, 0, 0, <<>>)}

DateUrls == {U_plain, U_dated, U_future}

\* the elements a document is built from: where the element goes ("head",
\* "article", "body" or "footer"), its tag, attributes and text
DateElements ==
    { [under |-> "head", tag |-> "meta", text |-> <<>>,
       attrs |-> Attr2("property", S_published_time, "content", D_iso)],
      [under |-> "head", tag |-> "meta", text |-> <<>>,
       attrs |-> Attr2("name", S_pubdate, "content", D_unparsable)],
      [under |-> "head", tag |-> "meta", text |-> <<>>,
       attrs |-> Attr2("name", S_pubdate, "content", D_day)],
      [under |-> "article", tag |-> "time", text |-> <<>>,
       attrs |-> Attr1("datetime", D_time)],
      [under |-> "article", tag |-> "time", text |-> <<>>,
       attrs |-> Attr1("datetime", D_unparsable)],
      [under |-> "body", tag |-> "span", text |-> D_published,
       attrs |-> Attr1("class", S_date)],
      [under |-> "footer", tag |-> "span", text |-> D_near, attrs |-> NoAttrs],
      [under |-> "article", tag |-> "p", text |-> D_para, attrs |-> NoAttrs],
      [under |-> "body", tag |-> "p", text |-> D_market, attrs |-> NoAttrs] }

\* <html><head/><body><div><p>text</p></div><footer/></body></html>
DateSkeleton ==
    << Element("html", 0, NoAttrs, <<>>),
       Element("head", 1, NoAttrs, <<>>),
       Element("body", 1, NoAttrs, <<>>),
       Element("div", 3, NoAttrs, <<>>),
       Element("p", 4, NoAttrs, P_text),
       Element("footer", 3, NoAttrs, <<>>) >>

DateParent(under) ==
    CASE under = "head" -> 2 [] under = "body" -> 3 [] under = "article" -> 4 [] OTHER -> 6

\* the skeleton with the elements appended under their parents, in order
DateDocument(es) ==
    DateSkeleton
    \o [k \in 1..Len(es) |-> Element(es[k].tag, DateParent(es[k].under), es[k].attrs, es[k].text)]

DateDocuments ==
    {DateDocument(es) : es \in UNION {[1..k -> DateElements] : k \in 0..MaxDateElements}}

\* the top node given to the call: None, or the <div> of the cleaned document
DateTopNodes ==
    { <<>>,
      << [tag |-> "html", idx |-> 0], [tag |-> "body", idx |-> 0], [tag |-> "div", idx |-> 0] >> }

\* the arguments of the direct parse_and_validate calls
DateStrings ==
    {D_url_future, D_week, D_soon, D_tomorrow, D_slash, D_june, D_iso, D_unparsable,
     D_published, D_near, D_para, D_arabic_published, D_slash_short, D_slash_twenty,
     D_iso_utc, D_url_ymd, D_url_both, D_url_mdy, D_url_invalid}

(***************************************************************************)
(* Specification of the publication date finder                            *)
(***************************************************************************)
InitDate ==
    /\ op = "init"
    /\ trie = DateFinder(DATE_KEYWORDS)
    /\ raised = FALSE
    /\ current_time \in DateNows
    /\ \/ /\ url \in DateUrls
          /\ original_doc \in DateDocuments
          /\ top_node \in DateTopNodes
          /\ pav_args = <<>>
       \/ /\ url = <<>>
          /\ IdleDoc
          /\ pav_args \in [date_str : DateStrings, from_heuristic : BOOLEAN, from_url : BOOLEAN]
    /\ publish_date = NoneDate
    /\ tier = "none"
    /\ consulted = <<>>
    /\ parsed = NoneDate
    /\ IdleText /\ IdleTitle /\ IdleNode /\ IdleWorkers /\ IdleGeo /\ IdleHeur /\ IdleClean

\* extractor.get_publishing_date(url, original_doc, top_node, source_doc)
GetPublishingDate ==
    /\ op = "init"
    /\ pav_args = <<>>
    /\ \E r \in {get_publishing_date(url, original_doc, top_node, current_time, trie)} :
          /\ publish_date' = r.date
          /\ tier' = r.tier
          /\ consulted' = r.consulted
    /\ original_doc' = document_after(original_doc, get_publishing_date_writes(original_doc))
    /\ op' = "get_publishing_date"
    /\ UNCHANGED <<trie, raised, url, current_time, pav_args, parsed,
                   textVars, top_node, titleVars, nodeVars, workers, geoVars, heurVars, cleanVars>>

\* parse_and_validate(date_str, from_heuristic, from_url)
ParseAndValidate ==
    /\ op = "init"
    /\ pav_args # <<>>
    /\ parsed' = parse_and_validate(pav_args.date_str, pav_args.from_heuristic,
                                    pav_args.from_url, current_time)
    /\ op' = "parse_and_validate"
    /\ UNCHANGED <<trie, raised, url, current_time, pav_args, publish_date, tier, consulted,
                   textVars, docVars, titleVars, nodeVars, workers, geoVars, heurVars, cleanVars>>

NextDate == GetPublishingDate \/ ParseAndValidate

SpecDate == InitDate /\ [][NextDate]_vars

(***************************************************************************)
(* Properties of the publication date finder                               *)
(***************************************************************************)
TierNames == <<"url", "meta", "time", "heuristic">>

\* what each source yields on its own for the inputs of the call
SourceDates ==
    << url_tier(url, current_time),
       meta_tier(original_doc, PUBLISH_DATE_TAGS, current_time),
       time_tier(original_doc, getElementsByTags(original_doc, {"time"}), current_time),
       heuristic_tier(original_doc, top_node, current_time, trie) >>

\* the date of each selector of PUBLISH_DATE_TAGS on its own
SelectorDates ==
    [k \in 1..Len(PUBLISH_DATE_TAGS) |->
        meta_date(original_doc, PUBLISH_DATE_TAGS[k], current_time)]

\* C1: get_publishing_date consults URL, metadata selectors (in the listed
\* order), <time datetime> elements and heuristic candidates in this order and
\* returns the first date that validates; the tiers after it are not run.
C1_TierOrder ==
    op = "get_publishing_date" =>
        \E dates \in {SourceDates} :
            /\ \A k \in 1..4 :
                  (dates[k] # NoneDate /\ \A j \in 1..(k - 1) : dates[j] = NoneDate) =>
                      /\ publish_date = dates[k]
                      /\ tier = TierNames[k]
                      /\ consulted = SubSeq(TierNames, 1, k)
            /\ tier = "meta" =>
                  \E selected \in {SelectorDates} :
                      \E k \in 1..Len(selected) :
                          /\ selected[k] = publish_date
                          /\ \A j \in 1..(k - 1) : selected[j] = NoneDate

\* the URL carries a valid date and a meta tag carries a different valid
\* date: the call has returned the date of the URL
C1_Witness ==
    /\ op = "get_publishing_date"
    /\ url = U_dated
    /\ \E n \in 1..Len(original_doc) :
          /\ original_doc[n].tag = "meta"
          /\ getAttribute(original_doc, n, "content") = D_iso
    /\ tier = "url"
    /\ publish_date = datetime(2024, 3, 15, 0, 0, 0, <<>>)
    /\ consulted = <<"url">>

\* the date is at most `seconds` later than the current time
NotLaterThan(dt, seconds) == SecondsBetween(dt, current_time, 30) <= seconds

\* C2: a date parse_and_validate returns is at most 7 days after now when
\* from_heuristic is false (from_url included) and at most 24 hours after now
\* when it is true; get_publishing_date never returns a date more than 7 days
\* after now.
C2_NeverFuture ==
    /\ (op = "parse_and_validate" /\ parsed # NoneDate) =>
           NotLaterThan(parsed, IF pav_args.from_heuristic THEN 24 * 3600 ELSE 7 * 86400)
    /\ (op = "get_publishing_date" /\ publish_date # NoneDate) =>
           NotLaterThan(publish_date, 7 * 86400)

\* some element a selector of PUBLISH_DATE_TAGS selects carries a date that
\* validates
SomeMetaValidates ==
    \E k \in 1..Len(PUBLISH_DATE_TAGS) :
        \E n \in Range(getElementsByAttr(original_doc, PUBLISH_DATE_TAGS[k].attribute,
                                         PUBLISH_DATE_TAGS[k].value)) :
            parse_and_validate(getAttribute(original_doc, n, content_key(PUBLISH_DATE_TAGS[k])),
                               FALSE, FALSE, current_time) # NoneDate

SomeTimeValidates ==
    \E n \in Range(getElementsByTags(original_doc, {"time"})) :
        parse_and_validate(getAttribute(original_doc, n, "datetime"),
                           FALSE, FALSE, current_time) # NoneDate

SomeCandidateValidates ==
    \E c \in Range(heuristic_candidates(original_doc, top_node, trie)) :
        parse_and_validate(c.text, TRUE, FALSE, current_time) # NoneDate

\* C3: a source that fails to parse or is rejected as a future date does not
\* stop the search; get_publishing_date returns None exactly when neither the
\* URL, nor any meta tag, nor any <time datetime>, nor any heuristic candidate
\* yields a validated date.
C3_NoneIffNoSource ==
    op = "get_publishing_date" =>
        (publish_date = NoneDate <=>
            ~ \/ url_tier(url, current_time) # NoneDate
              \/ SomeMetaValidates
              \/ SomeTimeValidates
              \/ SomeCandidateValidates)

(***************************************************************************)
(* Workers sharing one DateFinder: contains_month step by step             *)
(***************************************************************************)
\* char in node.children: a membership test on the defaultdict, which
\* creates nothing
has_child_always(tr, node, char) == TRUE

has_child(tr, node, char) == Append(node, char) \in tr.nodes

\* node.children[char] on the defaultdict: a missing child is created
get_child(tr, node, char) ==
    [trie |-> [tr EXCEPT !.nodes = @ \cup {Append(node, char)}],
     node |-> Append(node, char)]

is_end_of_word(tr, node) == node \in tr.ends

MaxWorkers == 2

\* "May", "maq" and the month mayo written with a hamza
WorkerTexts ==
    { <<"M", "a", "y">>, <<"m", "a", "q">>, <<"u0645", "u0623", "u064a", "u0648">> }

\* a worker about to call contains_month(t)
WorkerCall(t) ==
    [text |-> t, pc |-> "call", normalized_text |-> <<>>, i |-> 0, j |-> 0,
     node |-> <<>>, result |-> FALSE]

InitWorkers ==
    /\ op = "init"
    /\ trie = DateFinder(DATE_KEYWORDS)
    /\ raised = FALSE
    /\ workers \in [1..MaxWorkers -> {WorkerCall(t) : t \in WorkerTexts}]
    /\ IdleText /\ IdleDoc /\ IdleTitle /\ IdleNode /\ IdleDate /\ IdleGeo /\ IdleHeur /\ IdleClean

\* normalized_text = normalize_arabic(text.lower())
WorkerNormalize(w) ==
    /\ workers[w].pc = "call"
    /\ workers' = [workers EXCEPT ![w].normalized_text = normalize_arabic(lower(workers[w].text)),
                                  ![w].i = 1,
                                  ![w].pc = "outer"]
    /\ op' = "worker"
    /\ UNCHANGED <<trie, raised, textVars, docVars, titleVars, nodeVars, dateVars, geoVars, heurVars, cleanVars>>

\* for i in range(len(normalized_text)): node = self.root, or return False
WorkerOuter(w) ==
    /\ workers[w].pc = "outer"
    /\ workers' =
          IF workers[w].i > Len(workers[w].normalized_text)
          THEN [workers EXCEPT ![w].result = FALSE, ![w].pc = "done"]
          ELSE [workers EXCEPT ![w].node = <<>>, ![w].j = workers[w].i, ![w].pc = "test"]
    /\ op' = "worker"
    /\ UNCHANGED <<trie, raised, textVars, docVars, titleVars, nodeVars, dateVars, geoVars, heurVars, cleanVars>>

\* for j in range(i, len(normalized_text)): if char not in node.children: break
WorkerTest(w) ==
    /\ workers[w].pc = "test"
    /\ workers' =
          IF workers[w].j > Len(workers[w].normalized_text)
             \/ ~has_child(trie, workers[w].node, workers[w].normalized_text[workers[w].j])
          THEN [workers EXCEPT ![w].i = @ + 1, ![w].pc = "outer"]
          ELSE [workers EXCEPT ![w].pc = "descend"]
    /\ op' = "worker"
    /\ UNCHANGED <<trie, raised, textVars, docVars, titleVars, nodeVars, dateVars, geoVars, heurVars, cleanVars>>

\* node = node.children[char]; if node.is_end_of_word: return True
WorkerDescend(w) ==
    /\ workers[w].pc = "descend"
    /\ \E r \in {get_child(trie, workers[w].node, workers[w].normalized_text[workers[w].j])} :
          /\ trie' = r.trie
          /\ workers' =
                IF is_end_of_word(r.trie, r.node)
                THEN [workers EXCEPT ![w].node = r.node, ![w].result = TRUE, ![w].pc = "done"]
                ELSE [workers EXCEPT ![w].node = r.node, ![w].j = @ + 1, ![w].pc = "test"]
    /\ op' = "worker"
    /\ UNCHANGED <<raised, textVars, docVars, titleVars, nodeVars, dateVars, geoVars, heurVars, cleanVars>>

NextWorkers ==
    \E w \in 1..MaxWorkers :
        WorkerNormalize(w) \/ WorkerOuter(w) \/ WorkerTest(w) \/ WorkerDescend(w)

SpecWorkers == InitWorkers /\ [][NextWorkers]_vars

\* C12: the month Trie is never mutated after construction: contains_month
\* calls of several workers sharing one DateFinder, in any interleaving, leave
\* every node's children and terminal flag as built (looking up an absent
\* character creates no child), and every call returns what it returns alone.
C12_TrieNeverMutated ==
    /\ [][trie' = trie]_vars
    /\ [](\A w \in DOMAIN workers :
              workers[w].pc = "done" =>
                  workers[w].result = contains_month(trie, workers[w].text))

\* every worker has returned, one of them after looking up absent characters
\* (no month found) and one of them with a month found
C12_Witness ==
    /\ op = "worker"
    /\ \A w \in DOMAIN workers : workers[w].pc = "done"
    /\ \E w \in DOMAIN workers : ~workers[w].result /\ workers[w].text = <<"m", "a", "q">>
    /\ \E w \in DOMAIN workers : workers[w].result

(***************************************************************************)
(* One extraction: the title finder, the publication date finder and the   *)
(* top-node finder called on the same document                             *)
(***************************************************************************)
\* the documents of the date finder with a <title> in the head
ExtractDocuments ==
    {DateDocument(<<[under |-> "head", tag |-> "title", text |-> T_headline, attrs |-> NoAttrs],
                    e>>) : e \in DateElements}

InitExtract ==
    /\ op = "init"
    /\ trie = DateFinder(DATE_KEYWORDS)
    /\ raised = FALSE
    /\ original_doc \in ExtractDocuments
    /\ top_node \in DateTopNodes
    /\ doc = original_doc
    /\ gravityScore = [n \in 1..Len(doc) |-> 0]
    /\ gravityNodes = [n \in 1..Len(doc) |-> 0]
    /\ parent_nodes = <<>>
    /\ best_node = None
    /\ passes = 0
    /\ url \in {U_plain, U_dated}
    /\ current_time \in DateNows
    /\ publish_date = NoneDate
    /\ tier = "none"
    /\ consulted = <<>>
    /\ pav_args = <<>>
    /\ parsed = NoneDate
    /\ IdleText /\ IdleTitle /\ IdleWorkers /\ IdleGeo /\ IdleHeur /\ IdleClean

NextExtract == GetTitle \/ GetPublishingDate \/ CalculateBestNode

SpecExtract == InitExtract /\ [][NextExtract]_vars

MaxChain == 10        \* nested <div> levels below <body>

\* <html><body><div>...<div><p/><p/></div>...</div><footer><span/></footer></body></html>
GeometryDocument ==
    << Element("html", 0, NoAttrs, <<>>), Element("body", 1, NoAttrs, <<>>) >>
    \o [k \in 1..MaxChain |-> Element("div", k + 1, NoAttrs, <<>>)]
    \o << Element("p", MaxChain + 2, NoAttrs, P_text),
          Element("p", MaxChain + 2, NoAttrs, P_text),
          Element("footer", 2, NoAttrs, <<>>),
          Element("span", MaxChain + 5, NoAttrs, D_near) >>

GeometryNodes == (1..Len(GeometryDocument)) \cup {None}

\* the paths of the top node in the cleaned document: None, /html/body/div,
\* /html/body/div[2], /html/body/footer[3]/span, /html/body/section,
\* /html/body/section[2] and /html/body/div/.../div/p[2]
BodyPath == << [tag |-> "html", idx |-> 0], [tag |-> "body", idx |-> 0] >>

MappingPaths ==
    { <<>>,
      BodyPath \o << [tag |-> "div", idx |-> 0] >>,
      BodyPath \o << [tag |-> "div", idx |-> 2] >>,
      BodyPath \o << [tag |-> "footer", idx |-> 3], [tag |-> "span", idx |-> 0] >>,
      BodyPath \o << [tag |-> "section", idx |-> 0] >>,
      BodyPath \o << [tag |-> "section", idx |-> 2] >>,
      BodyPath \o [k \in 1..MaxChain |-> [tag |-> "div", idx |-> 0]]
               \o << [tag |-> "p", idx |-> 2] >> }

InitGeometry ==
    /\ op = "init"
    /\ trie = DateFinder(DATE_KEYWORDS)
    /\ raised = FALSE
    /\ original_doc = GeometryDocument
    /\ top_node \in MappingPaths
    /\ geo_nodes \in GeometryNodes \X GeometryNodes
    /\ dom_distance = 0
    /\ proximity = 0
    /\ mapped_node = None
    /\ IdleText /\ IdleTitle /\ IdleNode /\ IdleDate /\ IdleWorkers /\ IdleHeur /\ IdleClean

\* dom_distance = calculate_dom_distance(node1, node2)
CalculateDomDistance ==
    /\ op = "init"
    /\ geo_nodes # <<>>
    /\ dom_distance' = calculate_dom_distance(original_doc, geo_nodes[1], geo_nodes[2])
    /\ op' = "calculate_dom_distance"
    /\ UNCHANGED <<trie, raised, textVars, docVars, titleVars, nodeVars, dateVars, workers,
                   geo_nodes, proximity, mapped_node, heurVars, cleanVars>>

\* proximity = calculate_proximity_score(candidate_node, reference_node)
CalculateProximityScore ==
    /\ op = "init"
    /\ geo_nodes # <<>>
    /\ proximity' = calculate_proximity_score(original_doc, geo_nodes[1], geo_nodes[2])
    /\ op' = "calculate_proximity_score"
    /\ UNCHANGED <<trie, raised, textVars, docVars, titleVars, nodeVars, dateVars, workers,
                   geo_nodes, dom_distance, mapped_node, heurVars, cleanVars>>

\* dom_distance = calculate_dom_distance(node1, node2, tree) of get_title
CalculateDomDistanceTitle ==
    /\ op = "init"
    /\ geo_nodes # <<>>
    /\ dom_distance' = calculate_dom_distance_title(original_doc, geo_nodes[1], geo_nodes[2])
    /\ op' = "calculate_dom_distance_title"
    /\ UNCHANGED <<trie, raised, textVars, docVars, titleVars, nodeVars, dateVars, workers,
                   geo_nodes, proximity, mapped_node, heurVars, cleanVars>>

\* find_corresponding_node(top_node, source_doc, original_doc) of
\* get_publishing_date
FindCorrespondingNode ==
    /\ op = "init"
    /\ mapped_node' = find_corresponding_node(top_node, original_doc)
    /\ op' = "find_corresponding_node"
    /\ UNCHANGED <<trie, raised, textVars, docVars, titleVars, nodeVars, dateVars, workers,
                   geo_nodes, dom_distance, proximity, heurVars, cleanVars>>

\* find_corresponding_node(top_node, cleaned tree, original tree) of get_title
FindCorrespondingNodeTitle ==
    /\ op = "init"
    /\ mapped_node' = find_corresponding_node_title(top_node, original_doc)
    /\ op' = "find_corresponding_node_title"
    /\ UNCHANGED <<trie, raised, textVars, docVars, titleVars, nodeVars, dateVars, workers,
                   geo_nodes, dom_distance, proximity, heurVars, cleanVars>>

NextGeometry ==
    \/ CalculateDomDistance
    \/ CalculateProximityScore
    \/ CalculateDomDistanceTitle
    \/ FindCorrespondingNode
    \/ FindCorrespondingNodeTitle

SpecGeometry == InitGeometry /\ [][NextGeometry]_vars

\* the length of the longest common prefix of two paths
LongestCommonPrefix(p1, p2) ==
    Max({k \in 0..Min({Len(p1), Len(p2)}) : SubSeq(p1, 1, k) = SubSeq(p2, 1, k)})

\* C14: for two nodes a, b of a tree the DOM distance is 0 for (a, a),
\* symmetric, and equal to (len(path_a) - L) + (len(path_b) - L) with L the
\* length of the longest common prefix of the two paths; it is infinity when
\* either node is None.
C14_DomDistance ==
    op = "calculate_dom_distance" =>
        IF geo_nodes[1] = None \/ geo_nodes[2] = None THEN dom_distance = Infinity
        ELSE \E pa \in {getpath(original_doc, geo_nodes[1])} :
             \E pb \in {getpath(original_doc, geo_nodes[2])} :
                /\ dom_distance = (Len(pa) - LongestCommonPrefix(pa, pb))
                                  + (Len(pb) - LongestCommonPrefix(pa, pb))
                /\ geo_nodes[1] = geo_nodes[2] => dom_distance = 0
                /\ dom_distance = calculate_dom_distance(original_doc, geo_nodes[2], geo_nodes[1])

\* the two <p> siblings under the innermost <div>: all but the last segment
\* of their paths are shared and the distance is 2
C14_Witness ==
    /\ op = "calculate_dom_distance"
    /\ geo_nodes = <<MaxChain + 3, MaxChain + 4>>
    /\ dom_distance = 2

\* C15: calculate_proximity_score is non-increasing in the DOM distance, lies
\* in 0..100, is 0 when the distance is at least max_distance, when the
\* reference node is None and when the distance is infinite, and is 100 at
\* distance 0.
C15_ProximityScore ==
    op = "calculate_proximity_score" =>
        \E dist \in {calculate_dom_distance(original_doc, geo_nodes[1], geo_nodes[2])} :
            /\ proximity \in 0..100
            /\ (dist >= max_distance \/ geo_nodes[2] = None \/ dist = Infinity) => proximity = 0
            /\ dist = 0 => proximity = 100
            /\ \A other \in GeometryNodes :
                  calculate_dom_distance(original_doc, other, geo_nodes[2]) >= dist =>
                      calculate_proximity_score(original_doc, other, geo_nodes[2]) <= proximity

\* a candidate exactly max_distance away from the reference node scores 0
C15_Witness ==
    /\ op = "calculate_proximity_score"
    /\ geo_nodes[1] # None /\ geo_nodes[2] # None
    /\ calculate_dom_distance(original_doc, geo_nodes[1], geo_nodes[2]) = max_distance
    /\ proximity = 0

\* C16: for the Arabic text D_arabic_published (a publication prefix written
\* with a diacritic, then day, month name and year) _extract_best_date_string
\* returns exactly the substring D_arabic_date, and parse_and_validate with
\* from_heuristic = true returns 2024-03-15.
C16_ArabicPrefix ==
    (/\ op = "parse_and_validate"
     /\ pav_args.date_str = D_arabic_published
     /\ pav_args.from_heuristic
     /\ ~pav_args.from_url) =>
        /\ _extract_best_date_string(pav_args.date_str) = D_arabic_date
        /\ parsed = datetime(2024, 3, 15, 0, 0, 0, <<>>)

\* the string is a numeric date a/b/yyyy with a in 13..31 and b in 1..12
IsEuropeanDate(s) ==
    \E m \in {re_search(dateparser_numeric, s)} :
        /\ Matched(m)
        /\ int(group(s, m, 1)) \in 13..31
        /\ int(group(s, m, 2)) \in 1..12

\* C17: for a date string D/M/YYYY that does not come from the URL, whose
\* first group is greater than 12 and whose second group is a month,
\* parse_and_validate selects the day-month-year order for the date parser,
\* with or without leading zeros in the groups.
C17_EuropeanOrder ==
    (/\ op = "parse_and_validate"
     /\ ~pav_args.from_url
     /\ IsEuropeanDate(pav_args.date_str)) =>
        date_order(clean_timezone(pav_args.date_str, timezone_patterns), FALSE) = "DMY"

\* (\d{4})[-./](\d{1,2})[-./](\d{1,2}) anywhere in the string
IsoDateSubstring ==
    Cat(<<Grp(1, Rep(4, 4, Lit(ReDigit))), Lit({"-", ".", "/"}), Grp(2, Rep(1, 2, Lit(ReDigit))),
          Lit({"-", ".", "/"}), Grp(3, Rep(1, 2, Lit(ReDigit)))>>)

\* the string holds year, separator, month 1..12, separator, day 1..31
ContainsIsoDate(s) ==
    \E m \in {re_search(IsoDateSubstring, s)} :
        /\ Matched(m)
        /\ int(group(s, m, 2)) \in 1..12
        /\ int(group(s, m, 3)) \in 1..31

\* the call gets as far as dateparser.parse: neither the URL branch nor the
\* ISO branch has returned
ReachesDateparser(date_str, from_heuristic, from_url, now) ==
    /\ date_str # <<>>
    /\ from_url => url_branch(StripChars(date_str, {"/"}), url_patterns) = NoneDate
    /\ ~iso_branch(date_str, re_search(iso_pattern, date_str), from_heuristic, now).done

\* C18: whenever the string contains year, separator (- . /), month of one or
\* two digits, separator, day of one or two digits, also when a 'T' time part
\* follows as in 2024-03-20T10:00:00Z, parse_and_validate builds the instant
\* as year-month-day itself and does not call the date parser.
C18_IsoBypass ==
    (op = "parse_and_validate" /\ ContainsIsoDate(pav_args.date_str)) =>
        ~ReachesDateparser(pav_args.date_str, pav_args.from_heuristic, pav_args.from_url,
                           current_time)

\* the calendar date of three numbers, or None
CalendarDate(y, m, d) ==
    IF ValidDate(y, m, d, 0, 0, 0) THEN datetime(y, m, d, 0, 0, 0, <<>>) ELSE NoneDate

\* the readings of a URL date in the order the claim gives: year/month/day
\* for a leading group of four digits, else day/month/year and then
\* month/day/year for a trailing year
UrlReadings(s) ==
    LET ymd == re_search(url_pattern_ymd, s)
        dmy == re_search(url_pattern_dmy, s)
    IN  (IF Matched(ymd)
         THEN <<CalendarDate(int(group(s, ymd, 1)), int(group(s, ymd, 2)), int(group(s, ymd, 3)))>>
         ELSE <<>>)
        \o (IF Matched(dmy)
            THEN <<CalendarDate(int(group(s, dmy, 3)), int(group(s, dmy, 2)), int(group(s, dmy, 1))),
                   CalendarDate(int(group(s, dmy, 3)), int(group(s, dmy, 1)), int(group(s, dmy, 2)))>>
            ELSE <<>>)

\* C19: with from_url = true a match whose leading group has four digits is
\* read as year/month/day; with a trailing year day/month/year is tried first
\* and month/day/year second; groups that are not a calendar date fall
\* through to the later steps.
C19_UrlReadings ==
    (op = "parse_and_validate" /\ pav_args.from_url /\ pav_args.date_str # <<>>) =>
        \E readings \in {SelectSeq(UrlReadings(StripChars(pav_args.date_str, {"/"})),
                                   LAMBDA dt : dt # NoneDate)} :
            IF readings # <<>> THEN parsed = readings[1]
            ELSE parsed = after_url(NoneDate, pav_args.date_str, pav_args.from_heuristic,
                                    TRUE, current_time)

\* 03/04/2024 from a URL has been read as the third of April
C19_Witness ==
    /\ op = "parse_and_validate"
    /\ pav_args.from_url
    /\ pav_args.date_str = D_url_both
    /\ parsed = datetime(2024, 4, 3, 0, 0, 0, <<>>)

\* the elements the heuristic tier of the call has scored
ScoredElements ==
    {c.tag : c \in Range(heuristic_candidates(original_doc, top_node, trie))}

\* C20: an element becomes a heuristic date candidate only if its trimmed
\* text has 6 to 200 characters and it satisfies is_likely_date_text or its
\* class/id contains a date-suggestive keyword; an element failing both tests
\* is never scored.
C20_CandidateFilter ==
    (op = "get_publishing_date" /\ tier \in {"heuristic", "none"}) =>
        \A tag \in ScoredElements :
            /\ Len(Strip(getText(original_doc, tag))) \in 6..200
            /\ \/ is_likely_date_text(Strip(getText(original_doc, tag)))
               \/ has_date_attributes(getAttribute(original_doc, tag, "class"),
                                      getAttribute(original_doc, tag, "id"))

(***************************************************************************)
(* The heuristic tier of get_publishing_date, one candidate at a time      *)
(***************************************************************************)
MaxCandidateElements == 2   \* number of elements added to a document

\* the elements a document of the heuristic tier is built from
HeuristicElements ==
    { [under |-> "body", tag |-> "span", text |-> D_published,
       attrs |-> Attr1("class", S_date)],
      [under |-> "article", tag |-> "p", text |-> D_para, attrs |-> NoAttrs],
      [under |-> "footer", tag |-> "span", text |-> D_near, attrs |-> NoAttrs],
      [under |-> "body", tag |-> "p", text |-> D_market, attrs |-> NoAttrs],
      [under |-> "body", tag |-> "p", text |-> D_fecha, attrs |-> NoAttrs],
      [under |-> "footer", tag |-> "p", text |-> D_long_footer, attrs |-> NoAttrs],
      [under |-> "body", tag |-> "p", text |-> D_embedded, attrs |-> NoAttrs] }

HeuristicDocuments ==
    {DateDocument(es) : es \in UNION {[1..k -> HeuristicElements] : k \in 0..MaxCandidateElements}}

InitHeuristic ==
    /\ op = "init"
    /\ trie = DateFinder(DATE_KEYWORDS)
    /\ raised = FALSE
    /\ current_time \in DateNows
    /\ url = U_plain
    /\ original_doc \in HeuristicDocuments
    /\ top_node \in DateTopNodes
    /\ pav_args = <<>>
    /\ publish_date = NoneDate
    /\ tier = "none"
    /\ consulted = <<>>
    /\ parsed = NoneDate
    /\ sorted_candidates = <<>>
    /\ cand_index = 0
    /\ IdleText /\ IdleTitle /\ IdleNode /\ IdleWorkers /\ IdleGeo /\ IdleClean

\* the loop over all_tags, "if not candidates: return None" and candidates.sort
SortCandidates ==
    /\ op = "init"
    /\ sorted_candidates' = SortDesc(heuristic_candidates(original_doc, top_node, trie))
    /\ cand_index' = 0
    /\ op' = IF sorted_candidates' = <<>> THEN "heuristic_done" ELSE "candidates_sorted"
    /\ UNCHANGED <<trie, raised, textVars, docVars, titleVars, nodeVars, dateVars, workers, geoVars, cleanVars>>

\* one pass of "for candidate in candidates": a candidate scored below -30 is
\* skipped, the others are parsed; the first date returns, the end of the
\* list returns None
TryCandidate ==
    /\ op = "candidates_sorted"
    /\ cand_index < Len(sorted_candidates)
    /\ cand_index' = cand_index + 1
    /\ \E datetime_obj \in {IF sorted_candidates[cand_index + 1].score < -30 THEN NoneDate
                            ELSE parse_and_validate(sorted_candidates[cand_index + 1].text,
                                                    TRUE, FALSE, current_time)} :
          /\ publish_date' = datetime_obj
          /\ tier' = IF datetime_obj # NoneDate THEN "heuristic" ELSE "none"
          /\ op' = IF datetime_obj # NoneDate \/ cand_index' = Len(sorted_candidates)
                   THEN "heuristic_done" ELSE "candidates_sorted"
    /\ UNCHANGED <<trie, raised, url, current_time, consulted, pav_args, parsed, sorted_candidates,
                   textVars, docVars, titleVars, nodeVars, workers, geoVars, cleanVars>>

NextHeuristic == SortCandidates \/ TryCandidate

SpecHeuristic == InitHeuristic /\ [][NextHeuristic]_vars

\* the loop ends with what the heuristic tier computes in one step
HeuristicLoopAgrees ==
    op = "heuristic_done" =>
        publish_date = heuristic_tier(original_doc, top_node, current_time, trie)

\* the candidates made of an element itself (not of a date embedded in it)
OrdinaryCandidates ==
    {k \in 1..Len(sorted_candidates) :
        sorted_candidates[k].text = Strip(getText(original_doc, sorted_candidates[k].tag))}

\* the score of a candidate without regard to its text's keywords
ScoreApartFromKeywords(c) ==
    date_score(original_doc, c.tag, c.text,
               getAttribute(original_doc, c.tag, "class"), getAttribute(original_doc, c.tag, "id"),
               has_date_attributes(getAttribute(original_doc, c.tag, "class"),
                                   getAttribute(original_doc, c.tag, "id")),
               find_corresponding_node(top_node, original_doc),
               Range(getElementsByTags(original_doc, {"nav", "aside", "sidebar", "footer"})))
    - keyword_score(c.text)

\* C21: a heuristic candidate receives the +100 keyword bonus if and only if
\* its lower-cased text contains an entry of the module-level table
\* PUBLICATION_KEYWORDS.
C21_KeywordBonus ==
    op # "init" =>
        \A k \in OrdinaryCandidates :
            (sorted_candidates[k].score = ScoreApartFromKeywords(sorted_candidates[k]) + 100)
                <=> contains_any(lower(sorted_candidates[k].text), PUBLICATION_KEYWORDS)

\* candidate c was appended before candidate e by the loop over all_tags
EnumeratedBefore(enumerated, c, e) ==
    \E a, b \in 1..Len(enumerated) : a < b /\ enumerated[a] = c /\ enumerated[b] = e

\* the candidate does not give a date: it is skipped or does not validate
CandidateFails(c) ==
    c.score < -30 \/ parse_and_validate(c.text, TRUE, FALSE, current_time) = NoneDate

\* C22: the candidates are tried by descending score, equal scores in
\* enumeration order; a candidate scored below -30 is skipped; the first
\* candidate that validates with from_heuristic = true is the result, so a
\* candidate is returned only when every one before it failed.
C22_CandidateOrder ==
    op \in {"candidates_sorted", "heuristic_done"} =>
        /\ \E enumerated \in {heuristic_candidates(original_doc, top_node, trie)} :
              /\ Len(sorted_candidates) = Len(enumerated)
              /\ Range(sorted_candidates) = Range(enumerated)
              /\ \A i, j \in 1..Len(sorted_candidates) :
                    i < j =>
                      \/ sorted_candidates[i].score > sorted_candidates[j].score
                      \/ /\ sorted_candidates[i].score = sorted_candidates[j].score
                         /\ EnumeratedBefore(enumerated, sorted_candidates[i],
                                             sorted_candidates[j])
        /\ IF publish_date # NoneDate
           THEN /\ op = "heuristic_done"
                /\ sorted_candidates[cand_index].score >= -30
                /\ publish_date = parse_and_validate(sorted_candidates[cand_index].text,
                                                     TRUE, FALSE, current_time)
                /\ \A k \in 1..(cand_index - 1) : CandidateFails(sorted_candidates[k])
           ELSE /\ \A k \in 1..cand_index : CandidateFails(sorted_candidates[k])
                /\ op = "heuristic_done" => cand_index = Len(sorted_candidates)

\* the second candidate was returned after the first, scored the same and
\* enumerated earlier, had failed
C22_Witness ==
    /\ op = "heuristic_done"
    /\ publish_date # NoneDate
    /\ cand_index = 2
    /\ sorted_candidates[1].score = sorted_candidates[2].score
    /\ sorted_candidates[1].tag < sorted_candidates[2].tag

\* C28: every heuristic candidate is scored -20 or more, so the skip of the
\* candidates scored below -30 never fires: the loop ends without a date only
\* after every candidate has been parsed.
C28_ScoreFloor ==
    op \in {"candidates_sorted", "heuristic_done"} =>
        /\ \A k \in 1..Len(sorted_candidates) : sorted_candidates[k].score >= -20
        /\ (op = "heuristic_done" /\ publish_date = NoneDate) =>
               cand_index = Len(sorted_candidates)

\* a candidate scored -20 has been parsed
C28_Witness ==
    /\ op = "heuristic_done"
    /\ cand_index > 0
    /\ sorted_candidates[cand_index].score = -20
    /\ publish_date = parse_and_validate(sorted_candidates[cand_index].text, TRUE, FALSE,
                                         current_time)
    /\ publish_date # NoneDate

\* the node a path selects first in the target document, or None
FirstHit(path) ==
    IF xpath(original_doc, path) # <<>> THEN xpath(original_doc, path)[1] ELSE None

\* C23: mapping the top node into another document tries the exact path
\* first, on a miss the path without positional indices, taking its first
\* hit, and gives None when both miss; this holds for the mapping of the date
\* finder and for the mapping of the title finder.
C23_NodeMapping ==
    (op \in {"find_corresponding_node", "find_corresponding_node_title"}) =>
        mapped_node = IF top_node = <<>> THEN None
                      ELSE IF FirstHit(top_node) # None THEN FirstHit(top_node)
                      ELSE FirstHit([k \in 1..Len(top_node) |-> [top_node[k] EXCEPT !.idx = 0]])

\* C29: the distance helper of the title finder, which keeps the empty
\* segment before the leading slash, and the helper of the date finder, which
\* drops it, return the same value for any two nodes of a tree, and infinity
\* when a node is None.
C29_DistanceHelpersAgree ==
    /\ op \in {"calculate_dom_distance", "calculate_dom_distance_title"} =>
          /\ dom_distance = calculate_dom_distance(original_doc, geo_nodes[1], geo_nodes[2])
          /\ dom_distance = calculate_dom_distance_title(original_doc, geo_nodes[1], geo_nodes[2])
    /\ (op \in {"calculate_dom_distance", "calculate_dom_distance_title"}
            /\ None \in Range(geo_nodes)) =>
          dom_distance = Infinity

\* the title finder's helper has measured the two sibling paragraphs
C29_Witness ==
    /\ op = "calculate_dom_distance_title"
    /\ geo_nodes = <<MaxChain + 3, MaxChain + 4>>
    /\ dom_distance = 2

\* the sum of f over the set S
RECURSIVE SumOver(_, _)
SumOver(f, S) ==
    IF S = {} THEN 0
    ELSE LET x == CHOOSE y \in S : TRUE IN f[x] + SumOver(f, S \ {x})

\* whether each scored node is boostable, in scoring order
BoostableOf(scored) == [k \in 1..Len(scored) |-> is_boostable(doc, scored[k])] \o <<>>

\* the upscore of each of the scored nodes, in scoring order: the boost
\* divisor is one more than the number of boostable nodes before the node
UpscoresOf(scored, boostable) ==
    [k \in 1..Len(scored) |->
        upscore_of(get_stopword_count(getText(doc, scored[k])), boostable[k],
                   1 + Cardinality({j \in 1..(k - 1) : boostable[j]}),
                   Len(scored), k - 1, 0)] \o <<>>

ScoredChildren(scored, n) == {k \in 1..Len(scored) : getParent(doc, scored[k]) = n}

ScoredGrandchildren(scored, n) ==
    {k \in 1..Len(scored) : getParent(doc, getParent(doc, scored[k])) = n}

\* gravityScore, in half points, is what the upscores up of the scored nodes
\* add up to: whole for a parent, half for a grandparent
GravityScoreTotals(scored, up) ==
    \A n \in 1..Len(doc) :
        gravityScore[n] = 2 * SumOver(up, ScoredChildren(scored, n))
                            + SumOver(up, ScoredGrandchildren(scored, n))

\* C24: after a pass of calculate_best_node on a fresh document every node's
\* gravityScore is the sum of the upscores of its scored children plus half
\* the sum of the upscores of its scored grandchildren, and its gravityNodes
\* is the number of its scored children plus scored grandchildren; the scored
\* nodes are the <p>/<pre>/<td> with more than two stopwords that are not
\* link-dense.
C24_GravityTotals ==
    (op = "calculate_best_node" /\ ~raised) =>
        \E scored \in {nodes_with_text(doc)} :
            /\ Range(scored) = {n \in 1..Len(doc) :
                                   /\ doc[n].tag \in {"p", "pre", "td"}
                                   /\ get_stopword_count(getText(doc, n)) > 2
                                   /\ ~is_highlink_density(doc, n)}
            /\ \E boostable \in {BoostableOf(scored)} :
                  \E up \in {UpscoresOf(scored, boostable)} :
                      GravityScoreTotals(scored, up)
            /\ \A n \in 1..Len(doc) :
                  gravityNodes[n] = Cardinality(ScoredChildren(scored, n))
                                      + Cardinality(ScoredGrandchildren(scored, n))

\* a pass has scored children of B, which are grandchildren of W
C24_Witness ==
    /\ op = "calculate_best_node"
    /\ ~raised
    /\ Len(doc) > 4
    /\ gravityScore[4] > 0
    /\ gravityScore[4] = 2 * gravityScore[3]
    /\ gravityNodes[3] = gravityNodes[4]

\* the penalty, in sixteenths, the claim gives the node at 0-based position i
\* of n scored nodes: booster squared, or nothing when it and the penalties
\* applied before it exceed 40
RECURSIVE AppliedPenalty16(_, _)
AccumulatedPenalty16(n, i) ==
    SumOver([j \in 0..(i - 1) |-> AppliedPenalty16(n, j)], {j \in 0..(i - 1) : 4 * (n - j) <= n})

InLastQuarter(n, i) == n > 15 /\ 4 * (n - i) <= n

Clamped(n, i) ==
    InLastQuarter(n, i)
    /\ (n - 4 * (n - i)) * (n - 4 * (n - i)) + AccumulatedPenalty16(n, i) > 16 * 40

AppliedPenalty16(n, i) ==
    IF InLastQuarter(n, i) /\ ~Clamped(n, i) THEN (n - 4 * (n - i)) * (n - 4 * (n - i)) ELSE 0

\* the upscores with the accumulated clamp in the last quarter
ClaimedUpscoresOf(scored, up) ==
    [k \in 1..Len(scored) |->
        IF Clamped(Len(scored), k - 1) THEN get_stopword_count(getText(doc, scored[k])) + 5
        ELSE IF InLastQuarter(Len(scored), k - 1)
             THEN TruncDiv(16 * get_stopword_count(getText(doc, scored[k]))
                             - AppliedPenalty16(Len(scored), k - 1), 16)
        ELSE up[k]] \o <<>>

\* C25: with more than 15 scored nodes, the node at 0-based position i in the
\* last quarter gets -(booster^2), booster = 0.25*N - (N - i), replaced by +5
\* when this penalty together with the penalties applied to earlier tail
\* nodes exceeds 40; the other nodes, and all nodes of 15 or fewer, get no
\* penalty.
C25_TailPenalty ==
    (op = "calculate_best_node" /\ ~raised) =>
        \E scored \in {nodes_with_text(doc)} :
            \E boostable \in {BoostableOf(scored)} :
                \E up \in {UpscoresOf(scored, boostable)} :
                    \E claimed \in {ClaimedUpscoresOf(scored, up)} :
                        GravityScoreTotals(scored, claimed)

(***************************************************************************)
(* Sibling adoption and post-cleanup.  The children of the top node after  *)
(* a call are a list of entries: node is the element the entry is (an      *)
(* original child, or a previous sibling taken over as it is) or the       *)
(* paragraph the entry was created from; created tells the two apart, and  *)
(* sibling is the previous sibling the entry came from (None: original).   *)
(***************************************************************************)
ChildEntry(node, created, sibling) == [node |-> node, created |-> created, sibling |-> sibling]

\* the tag of an entry: createElement(tag='p', ...) for the created ones
EntryTag(d, e) == IF e.created THEN "p" ELSE d[e.node].tag

\* get_siblings_score: the sum and the number of the stopword counts of the
\* <p> below the top node with more than two stopwords and no high link
\* density (number 0: base stays 100000)
qualifying_paragraphs(d, top) ==
    SelectSeq(getElementsByTag(d, top, "p"),
              LAMBDA n : get_stopword_count(getText(d, n)) > 2 /\ ~is_highlink_density(d, n))

paragraphs_score_sum(d, ps) ==
    IF ps = <<>> THEN 0
    ELSE LET counts == [k \in 1..Len(ps) |-> get_stopword_count(getText(d, ps[k]))]
             sums[k \in 0..Len(ps)] == IF k = 0 THEN 0 ELSE sums[k - 1] + counts[k]
         IN  sums[Len(ps)]

get_siblings_score(d, top) ==
    LET ps == qualifying_paragraphs(d, top)
    IN  IF Len(ps) > 0 THEN [paragraphs_score |-> paragraphs_score_sum(d, ps),
                             paragraphs_number |-> Len(ps)]
        ELSE [paragraphs_score |-> 100000, paragraphs_number |-> 1]

\* score < paragraph_score with score = base * 0.3 and base =
\* paragraphs_score / paragraphs_number (for the counts of the model the float
\* product is on the same side of paragraph_score as the exact one)
below_paragraph_score(base, paragraph_score) ==
    3 * base.paragraphs_score < 10 * base.paragraphs_number * paragraph_score

\* get_siblings_content: the sibling itself when it is a <p> with text,
\* else a new <p> for each <p> below it that has text, scores above the
\* baseline and is not link-dense
get_siblings_content(d, current_sibling, baseline_score_siblings_para) ==
    IF d[current_sibling].tag = "p" /\ Len(getText(d, current_sibling)) > 0
    THEN <<ChildEntry(current_sibling, FALSE, current_sibling)>>
    ELSE LET potential_paragraphs ==
                 SelectSeq(getElementsByTag(d, current_sibling, "p"), LAMBDA n :
                     /\ Len(getText(d, n)) > 0
                     /\ below_paragraph_score(baseline_score_siblings_para,
                                              get_stopword_count(getText(d, n)))
                     /\ ~is_highlink_density(d, n))
         IN  [k \in 1..Len(potential_paragraphs) |->
                 ChildEntry(potential_paragraphs[k], TRUE, current_sibling)]

\* the paragraphs put in front in the order they were found
insert_all_in_order(children, ps) == ps \o children

\* "for p in ps: top_node.insert(0, p)"
RECURSIVE insert_all_first(_, _)
insert_all_first(children, ps) ==
    IF ps = <<>> THEN children
    ELSE insert_all_first(<<Head(ps)>> \o children, Tail(ps))

\* the loop of add_siblings over the previous siblings, nearest first
RECURSIVE add_siblings_from(_, _, _, _)
add_siblings_from(d, results, base, children) ==
    IF results = <<>> THEN children
    ELSE add_siblings_from(d, Tail(results), base,
             insert_all_first(children, get_siblings_content(d, Head(results), base)))

OriginalChildren(d, top) ==
    [k \in 1..Len(ChildrenOf(d, top)) |-> ChildEntry(ChildrenOf(d, top)[k], FALSE, None)]

\* add_siblings(top_node): the children of the top node afterwards
add_siblings(d, top) ==
    add_siblings_from(d, walk_siblings(d, top), get_siblings_score(d, top),
                      OriginalChildren(d, top))

\* the children post_cleanup gives to parser.remove
removed_children(d, children) ==
    SelectSeq(children, LAMBDA e :
        EntryTag(d, e) # "p" /\ ~e.created /\ is_highlink_density(d, e.node))

\* a cleanup that also removes the link-dense <p> children
post_cleanup_paragraphs_too(d, top) ==
    [node |-> top,
     removed |-> SelectSeq(add_siblings(d, top), LAMBDA e :
                     ~e.created /\ is_highlink_density(d, e.node)),
     children |-> SelectSeq(add_siblings(d, top), LAMBDA e :
                      ~(~e.created /\ is_highlink_density(d, e.node)))]

\* post_cleanup(top_node): the node returned, the children removed and the
\* children left; a created <p> has text only, so it has no links
post_cleanup(d, top) ==
    [node |-> top,
     removed |-> removed_children(d, add_siblings(d, top)),
     children |-> SelectSeq(add_siblings(d, top), LAMBDA e :
                      e \notin Range(removed_children(d, add_siblings(d, top))))]

(***************************************************************************)
(* Specification of sibling adoption and post-cleanup                      *)
(***************************************************************************)
MaxSiblings == 2    \* previous siblings of the top node

\* a piece of a document: its elements in order; up is the position in the
\* piece of the parent (0: the element the piece is put under)
Piece(tag, up, txt) == [tag |-> tag, up |-> up, text |-> txt]

\* <p>the of and news</p>, <p/>, <div><p>rich</p><p>the of and news</p></div>,
\* <div><p>the news</p></div>, <div><p><a>the of and</a></p></div>
SiblingKinds ==
    { <<Piece("p", 0, P_text)>>,
      <<Piece("p", 0, <<>>)>>,
      <<Piece("div", 0, <<>>), Piece("p", 1, P_rich), Piece("p", 1, P_text)>>,
      <<Piece("div", 0, <<>>), Piece("p", 1, P_short)>>,
      <<Piece("div", 0, <<>>), Piece("p", 1, <<>>), Piece("a", 2, A_only)>> }

\* <p>rich</p>, <p>the of news</p>, <div><a>the of and</a></div>,
\* <div>the of and news</div>, <p><a>to in is</a><a>to in is</a></p>,
\* <div>the news<a>to</a><a>in</a></div>
ChildKinds ==
    { <<Piece("p", 0, P_rich)>>,
      <<Piece("p", 0, P_thin)>>,
      <<Piece("div", 0, <<>>), Piece("a", 1, A_only)>>,
      <<Piece("div", 0, P_text)>>,
      <<Piece("p", 0, <<>>), Piece("a", 1, A_link), Piece("a", 1, A_link)>>,
      <<Piece("div", 0, P_short), Piece("a", 1, A_to), Piece("a", 1, A_in)>> }

AddPiece(d, parent, piece) ==
    d \o [k \in 1..Len(piece) |->
            Element(piece[k].tag, IF piece[k].up = 0 THEN parent ELSE Len(d) + piece[k].up,
                    NoAttrs, piece[k].text)]

RECURSIVE AddPieces(_, _, _)
AddPieces(d, parent, pieces) ==
    IF pieces = <<>> THEN d
    ELSE AddPieces(AddPiece(d, parent, Head(pieces)), parent, Tail(pieces))

\* <div> siblings <div top> children </div> </div>
WithTopNode(d) == d \o <<Element("div", 1, NoAttrs, <<>>)>>

CleanupDocument(siblings, children) ==
    AddPieces(WithTopNode(AddPieces(<<Element("div", None, NoAttrs, <<>>)>>, 1, siblings)),
              Len(WithTopNode(AddPieces(<<Element("div", None, NoAttrs, <<>>)>>, 1, siblings))),
              children)

\* the top node of a cleanup document: the last child of the root
TopNodeOf(d) == ChildrenOf(d, 1)[Len(ChildrenOf(d, 1))]

CleanupDocuments ==
    {CleanupDocument(siblings, children) :
        siblings \in UNION {[1..k -> SiblingKinds] : k \in 0..MaxSiblings},
        children \in UNION {[1..k -> ChildKinds] : k \in 0..2}}

InitCleanup ==
    /\ op = "init"
    /\ trie = DateFinder(DATE_KEYWORDS)
    /\ raised = FALSE
    /\ doc \in CleanupDocuments
    /\ gravityScore = [n \in 1..Len(doc) |-> 0]
    /\ gravityNodes = [n \in 1..Len(doc) |-> 0]
    /\ parent_nodes = <<>>
    /\ best_node = TopNodeOf(doc)
    /\ passes = 0
    /\ top_children = <<>>
    /\ returned_node = 0
    /\ removed_nodes = <<>>
    /\ density = <<>>
    /\ IdleText /\ IdleDoc /\ IdleTitle /\ IdleDate /\ IdleWorkers /\ IdleGeo /\ IdleHeur

\* self.add_siblings(top_node)
AddSiblings ==
    /\ op = "init"
    /\ top_children' = add_siblings(doc, best_node)
    /\ returned_node' = best_node
    /\ op' = "add_siblings"
    /\ UNCHANGED <<trie, raised, textVars, docVars, titleVars, nodeVars, dateVars, workers,
                   geoVars, heurVars, removed_nodes, density>>

\* extractor.post_cleanup(top_node)
PostCleanup ==
    /\ op = "init"
    /\ \E r \in {post_cleanup(doc, best_node)} :
          /\ top_children' = r.children
          /\ removed_nodes' = r.removed
          /\ returned_node' = r.node
    /\ op' = "post_cleanup"
    /\ UNCHANGED <<trie, raised, textVars, docVars, titleVars, nodeVars, dateVars, workers,
                   geoVars, heurVars, density>>

\* self.is_highlink_density(e)
IsHighlinkDensity ==
    /\ op = "init"
    /\ \E e \in 1..Len(doc) : density' = <<e, is_highlink_density(doc, e)>>
    /\ op' = "is_highlink_density"
    /\ UNCHANGED <<trie, raised, textVars, docVars, titleVars, nodeVars, dateVars, workers,
                   geoVars, heurVars, top_children, returned_node, removed_nodes>>

NextCleanup == AddSiblings \/ PostCleanup \/ IsHighlinkDensity

SpecCleanup == InitCleanup /\ [][NextCleanup]_vars

\* the links below e, the number of words in their texts, and the number of
\* alphanumeric words in the text of e
LinksOf(e) == getElementsByTag(doc, e, "a")

LinkWordCount(e) ==
    SumOver([k \in 1..Len(LinksOf(e)) |-> WordCount(getText(doc, LinksOf(e)[k]))],
            1..Len(LinksOf(e)))

AlnumWordCount(e) == Len(SelectSeq(Words(getText(doc, e)), isalnum))

\* C26: is_highlink_density(e) is true exactly when e contains at least one
\* link and either the text of e has no alphanumeric word or
\* (link_word_count / total_word_count) * link_count >= 1.0, the counts being
\* the words of the links, the alphanumeric words of e and the links of e; a
\* node without links is never dense.
C26_LinkDensity ==
    op = "is_highlink_density" =>
        (density[2] <=>
            /\ Len(LinksOf(density[1])) >= 1
            /\ \/ AlnumWordCount(density[1]) = 0
               \/ LinkWordCount(density[1]) * Len(LinksOf(density[1]))
                     >= AlnumWordCount(density[1]))

\* the child is link-dense: a created <p> has no links
DenseChild(e) == ~e.created /\ is_highlink_density(doc, e.node)

AdoptedCount == Len(top_children) - Len(ChildrenOf(doc, best_node))

\* C30: add_siblings puts every adopted paragraph before all original
\* children; paragraphs from different previous siblings keep their document
\* order, paragraphs taken from inside one sibling come in the reverse of
\* their document order; when the top node has no qualifying paragraph no
\* paragraph nested in a non-<p> sibling is adopted.
C30_AdoptionOrder ==
    op = "add_siblings" =>
        /\ returned_node = best_node
        /\ AdoptedCount >= 0
        /\ SubSeq(top_children, AdoptedCount + 1, Len(top_children))
              = OriginalChildren(doc, best_node)
        /\ \A i \in 1..AdoptedCount :
              /\ top_children[i].sibling \in Range(previousSiblings(doc, best_node))
              /\ EntryTag(doc, top_children[i]) = "p"
        /\ \A i, j \in 1..AdoptedCount :
              i < j =>
                \/ top_children[i].sibling < top_children[j].sibling
                \/ /\ top_children[i].sibling = top_children[j].sibling
                   /\ top_children[i].node > top_children[j].node
        /\ qualifying_paragraphs(doc, best_node) = <<>> =>
              \A i \in 1..AdoptedCount : ~top_children[i].created

\* two paragraphs from inside one sibling follow a paragraph of a farther
\* sibling and precede an original child
C30_Witness ==
    /\ op = "add_siblings"
    /\ AdoptedCount = 3
    /\ Len(top_children) > 3
    /\ ~top_children[1].created
    /\ top_children[2].created
    /\ top_children[3].created
    /\ top_children[2].sibling = top_children[3].sibling

====
